---- MODULE Spec2Model ----
(***************************************************************************)
(* Message statistics plugin: per-user message histories of a chat group,  *)
(* the time-window resolver, the period aggregator and the ranking engine  *)
(* of src/main.py, with the helpers of src/utils.                          *)
(*                                                                         *)
(* Dates are proleptic Gregorian ordinals (datetime.date.toordinal()), so  *)
(* date comparison is integer comparison and timedelta(days=k) is +k.      *)
(* A history entry is a day bucket [date, count].                          *)
(***************************************************************************)
EXTENDS Integers, Sequences, FiniteSets, TLC

VARIABLES
    today,                      \* datetime.now().date()
    store,                      \* data_manager: known group id -> list of UserData
    plugin_config,              \* blocked_users, blocked_groups, if_send_pic, rand
    user_nickname_cache,        \* TTLCache "nickname_<uid>" -> name
    group_members_cache,        \* TTLCache "group_members_<gid>" -> member list
    group_members_dict_cache,   \* dict "group_members_dict_<gid>" -> member dict
    group_unified_msg_origins,  \* group id -> unified_msg_origin
    sent,                       \* messages yielded to the chat, oldest first
    escaped,                    \* an exception left the last handler
    last_rank,                  \* the last rank query: its inputs and its result
    last_hook,                  \* what the hook did with the last message event
    calls,                      \* per (group, user): update_user_message calls that succeeded
    h_history, h_start, h_end,  \* period aggregator inputs
    h_fast, h_slow,             \* period aggregator results, with their scan traces
    w_type, w_period, w_week,   \* window resolver input and results
    k_now,                      \* the timer of the TTL caches, in seconds
    k_stamps,                   \* per cache: key -> time the entry was stored
    k_served,                   \* the last nickname lookup: the tier that answered, the age of its entry
    task,                       \* the command suspended at an await, with its local variables
    last_cmd,                   \* the last handler that ran to its end, and what it did
    f_disk,                     \* the text of the group's data file on disk
    f_save,                     \* save_json_file, suspended at an await
    f_loaded,                   \* what the last load_json_file returned or raised
    x_call                      \* the last call of a function wrapped by safe_execute

vars == <<today, store, plugin_config, user_nickname_cache,
          group_members_cache, group_members_dict_cache, group_unified_msg_origins,
          sent, escaped, last_rank, last_hook, calls,
          h_history, h_start, h_end, h_fast, h_slow, w_type, w_period, w_week,
          k_now, k_stamps, k_served, task, last_cmd,
      f_disk, f_save, f_loaded, x_call>>

----------------------------------------------------------------------------
(* Python values *)

None == "None"

RankTypes == {"TOTAL", "DAILY", "WEEKLY", "MONTHLY", "YEARLY", "LAST_YEAR"}

RECURSIVE SumSeq(_)
SumSeq(s) ==
    IF s = <<>> THEN 0 ELSE Head(s) + SumSeq(Tail(s))

RECURSIVE SortedList(_)
\* sorted(set(xs)) for a set of integers
SortedList(S) ==
    IF S = {} THEN <<>>
    ELSE LET m == CHOOSE x \in S : \A y \in S : x <= y
         IN  <<m>> \o SortedList(S \ {m})

SeqToSet(s) == {s[i] : i \in DOMAIN s}

----------------------------------------------------------------------------
(* datetime.date *)

Years == 2022..2025

IsLeap(y) == (y % 4 = 0 /\ y % 100 # 0) \/ y % 400 = 0

DaysInMonth(y, m) ==
    IF m = 2 THEN (IF IsLeap(y) THEN 29 ELSE 28)
    ELSE IF m \in {4, 6, 9, 11} THEN 30 ELSE 31

DaysBeforeYear(y) ==
    (y - 1) * 365 + ((y - 1) \div 4) - ((y - 1) \div 100) + ((y - 1) \div 400)

RECURSIVE DaysBeforeMonth(_, _)
DaysBeforeMonth(y, m) ==
    IF m = 1 THEN 0 ELSE DaysBeforeMonth(y, m - 1) + DaysInMonth(y, m - 1)

\* date(y, m, d)
MkDate(y, m, d) == DaysBeforeYear(y) + DaysBeforeMonth(y, m) + d

YearOf(n) == CHOOSE y \in Years : DaysBeforeYear(y) < n /\ n <= DaysBeforeYear(y + 1)

MonthOf(n) ==
    LET y == YearOf(n)
        k == n - DaysBeforeYear(y)
    IN  CHOOSE m \in 1..12 :
            DaysBeforeMonth(y, m) < k /\ k <= DaysBeforeMonth(y, m) + DaysInMonth(y, m)

DayOf(n) == n - DaysBeforeYear(YearOf(n)) - DaysBeforeMonth(YearOf(n), MonthOf(n))

\* date.weekday(): Monday is 0
Weekday(n) == (n + 6) % 7

\* date.replace(month=m, day=d)
ReplaceMonthDay(n, m, d) == MkDate(YearOf(n), m, d)

\* date.replace(day=d)
ReplaceDay(n, d) == MkDate(YearOf(n), MonthOf(n), d)

----------------------------------------------------------------------------
(* Time-window resolver *)

get_week_start(date_obj) ==
    LET days_since_monday == Weekday(date_obj)
    IN  date_obj - days_since_monday

get_month_start(date_obj) == ReplaceDay(date_obj, 1)

Period(s, e, n) == [start |-> s, end |-> e, name |-> n]

\* a resolver that takes Sunday as the first day of the week
TimePeriodSundayWeek(rank_type, current_date) ==
    IF rank_type = "WEEKLY"
    THEN Period(current_date - ((Weekday(current_date) + 1) % 7), current_date, "weekly")
    ELSE IF rank_type = "TOTAL" THEN Period(None, None, "total")
    ELSE IF rank_type = "DAILY" THEN Period(current_date, current_date, "daily")
    ELSE IF rank_type = "MONTHLY"
    THEN Period(ReplaceDay(current_date, 1), current_date, "monthly")
    ELSE IF rank_type = "YEARLY"
    THEN Period(ReplaceMonthDay(current_date, 1, 1), current_date, "yearly")
    ELSE Period(MkDate(YearOf(current_date) - 1, 1, 1),
                MkDate(YearOf(current_date) - 1, 12, 31), "lastyear")

\* a resolver whose LAST_YEAR window ends today
TimePeriodLastYearOpen(rank_type, current_date) ==
    IF rank_type = "LAST_YEAR"
    THEN Period(MkDate(YearOf(current_date) - 1, 1, 1), current_date, "lastyear")
    ELSE IF rank_type = "TOTAL" THEN Period(None, None, "total")
    ELSE IF rank_type = "DAILY" THEN Period(current_date, current_date, "daily")
    ELSE IF rank_type = "WEEKLY"
    THEN Period(current_date - Weekday(current_date), current_date, "weekly")
    ELSE IF rank_type = "MONTHLY"
    THEN Period(ReplaceDay(current_date, 1), current_date, "monthly")
    ELSE Period(ReplaceMonthDay(current_date, 1, 1), current_date, "yearly")

\* _get_time_period_for_rank_type, with datetime.now().date() as a parameter
TimePeriod(rank_type, current_date) ==
    IF rank_type = "TOTAL" THEN Period(None, None, "total")
    ELSE IF rank_type = "DAILY" THEN Period(current_date, current_date, "daily")
    ELSE IF rank_type = "WEEKLY"
    THEN LET days_since_monday == Weekday(current_date)
             week_start == current_date - days_since_monday
         IN  Period(week_start, current_date, "weekly")
    ELSE IF rank_type = "MONTHLY"
    THEN LET month_start == ReplaceDay(current_date, 1)
         IN  Period(month_start, current_date, "monthly")
    ELSE IF rank_type = "YEARLY"
    THEN LET year_start == ReplaceMonthDay(current_date, 1, 1)
         IN  Period(year_start, current_date, "yearly")
    ELSE IF rank_type = "LAST_YEAR"
    THEN LET last_year == YearOf(current_date) - 1
             year_start == MkDate(last_year, 1, 1)
             year_end == MkDate(last_year, 12, 31)
         IN  Period(year_start, year_end, "lastyear")
    ELSE Period(None, None, "unknown")

----------------------------------------------------------------------------
(* Period aggregator *)

\* hist_date.to_date()
ToDate(hist_date) == hist_date.date

\* the sortedness check reduced to the first adjacent pair
IsSortedSampled(history) ==
    Len(history) <= 1 \/ ~(ToDate(history[1]) > ToDate(history[2]))

\* the adjacent-pair loop of _count_messages_in_period_fast
IsSortedHistory(history) ==
    \A i \in 1..(Len(history) - 1) :
        ~(ToDate(history[i]) > ToDate(history[i + 1]))

RECURSIVE EarlyExitScan(_, _, _, _, _)
\* the early-exit loop: [count, scanned] after entry i onwards
EarlyExitScan(history, i, start_date, end_date, acc) ==
    IF i > Len(history) THEN acc
    ELSE LET hist_date_obj == ToDate(history[i])
             seen == [acc EXCEPT !.scanned = @ + 1]
         IN  IF hist_date_obj < start_date
             THEN EarlyExitScan(history, i + 1, start_date, end_date, seen)
             ELSE IF hist_date_obj > end_date
             THEN seen
             ELSE EarlyExitScan(history, i + 1, start_date, end_date,
                                [seen EXCEPT !.count = @ + 1])

RECURSIVE UnorderedScan(_, _, _, _, _)
UnorderedScan(history, i, start_date, end_date, acc) ==
    IF i > Len(history) THEN acc
    ELSE LET hist_date_obj == ToDate(history[i])
             seen == [acc EXCEPT !.scanned = @ + 1]
         IN  IF start_date <= hist_date_obj /\ hist_date_obj <= end_date
             THEN UnorderedScan(history, i + 1, start_date, end_date,
                                [seen EXCEPT !.count = @ + 1])
             ELSE UnorderedScan(history, i + 1, start_date, end_date, seen)

NoScan == [count |-> 0, scanned |-> 0, path |-> "empty"]

\* _count_messages_in_period_unordered, with the entries it inspected
CountUnorderedTrace(history, start_date, end_date) ==
    IF history = <<>> THEN NoScan
    ELSE UnorderedScan(history, 1, start_date, end_date,
                       [count |-> 0, scanned |-> 0, path |-> "unordered"])

_count_messages_in_period_unordered(history, start_date, end_date) ==
    CountUnorderedTrace(history, start_date, end_date).count

\* _count_messages_in_period_fast, with the path taken and the entries inspected
CountFastTrace(history, start_date, end_date) ==
    IF history = <<>> THEN NoScan
    ELSE LET is_sorted == IsSortedHistory(history)
         IN  IF is_sorted
             THEN EarlyExitScan(history, 1, start_date, end_date,
                                [count |-> 0, scanned |-> 0, path |-> "fast"])
             ELSE CountUnorderedTrace(history, start_date, end_date)

_count_messages_in_period_fast(history, start_date, end_date) ==
    CountFastTrace(history, start_date, end_date).count

\* UserData.get_message_count_in_period: the sum of the buckets in [start, end]
get_message_count_in_period(history, start_date, end_date) ==
    SumSeq([i \in 1..Len(history) |->
               IF start_date <= ToDate(history[i]) /\ ToDate(history[i]) <= end_date
               THEN history[i].count ELSE 0])

----------------------------------------------------------------------------
(* Block lists *)

Digit(d) ==
    CASE d = 0 -> "0" [] d = 1 -> "1" [] d = 2 -> "2" [] d = 3 -> "3" [] d = 4 -> "4"
      [] d = 5 -> "5" [] d = 6 -> "6" [] d = 7 -> "7" [] d = 8 -> "8" [] d = 9 -> "9"

RECURSIVE IntToStr(_)
IntToStr(n) ==
    IF n < 10 THEN Digit(n) ELSE IntToStr(n \div 10) \o Digit(n % 10)

\* str(x) of a configured id: an int or a str
PyStr(x) == IF x.t = "int" THEN IntToStr(x.v) ELSE x.v

\* a comparison that skips str(): only string entries can match
IsBlockedNoStr(user_id, blocked) ==
    \E i \in DOMAIN blocked : blocked[i].t = "str" /\ blocked[i].v = user_id

\* the body of _is_blocked_user over a given blocked_users list
IsBlockedIn(user_id, blocked) ==
    IF blocked = <<>> THEN FALSE
    ELSE LET user_id_str == user_id
         IN  user_id_str \in {PyStr(blocked[i]) : i \in DOMAIN blocked}

_is_blocked_user(user_id) == IsBlockedIn(user_id, plugin_config.blocked_users)

_is_blocked_group(group_id) == IsBlockedIn(group_id, plugin_config.blocked_groups)

----------------------------------------------------------------------------
(* Ranking engine *)

RankEntry(user, v) == [user |-> user.user_id, value |-> v]

\* [(user, val[user]) for user in group_data if keep[user]], in list order;
\* keep and val are indexed like group_data
Collect(group_data, keep, val) ==
    LET idx == SortedList({i \in DOMAIN group_data : keep[i]})
    IN  [k \in 1..Len(idx) |-> RankEntry(group_data[idx[k]], val[idx[k]])]

\* a total rank that keeps users who never spoke
TotalRankKeepZero(group_data) ==
    Collect(group_data,
            [i \in DOMAIN group_data |-> ~_is_blocked_user(group_data[i].user_id)],
            [i \in DOMAIN group_data |-> group_data[i].message_count])

\* a total rank that forgets the block list
TotalRankNoBlock(group_data) ==
    Collect(group_data,
            [i \in DOMAIN group_data |-> group_data[i].message_count > 0],
            [i \in DOMAIN group_data |-> group_data[i].message_count])

\* a total rank that asks for a history, as the windowed ranks do
TotalRankNeedsHistory(group_data) ==
    Collect(group_data,
            [i \in DOMAIN group_data |->
                /\ group_data[i].message_count > 0
                /\ group_data[i].history # <<>>
                /\ ~_is_blocked_user(group_data[i].user_id)],
            [i \in DOMAIN group_data |-> group_data[i].message_count])

\* the TOTAL branch of _filter_data_by_rank_type
TotalRank(group_data) ==
    Collect(group_data,
            [i \in DOMAIN group_data |->
                /\ group_data[i].message_count > 0
                /\ ~_is_blocked_user(group_data[i].user_id)],
            [i \in DOMAIN group_data |-> group_data[i].message_count])

_calculate_daily_rank(group_data, start_date, end_date) ==
    LET period_count ==
            [i \in DOMAIN group_data |->
                get_message_count_in_period(group_data[i].history, start_date, end_date)]
    IN  Collect(group_data,
                [i \in DOMAIN group_data |->
                    /\ ~_is_blocked_user(group_data[i].user_id)
                    /\ group_data[i].history # <<>>
                    /\ period_count[i] > 0],
                period_count)

_calculate_period_rank_optimized(group_data, start_date, end_date) ==
    LET active_users == SelectSeq(group_data, LAMBDA user : user.history # <<>>)
        period_count ==
            [i \in DOMAIN active_users |->
                _count_messages_in_period_fast(active_users[i].history, start_date, end_date)]
    IN  IF active_users = <<>> THEN <<>>
        ELSE Collect(active_users,
                     [i \in DOMAIN active_users |->
                         /\ ~_is_blocked_user(active_users[i].user_id)
                         /\ period_count[i] > 0],
                     period_count)

_filter_data_by_rank_type(group_data, rank_type, current_date) ==
    LET period == TimePeriod(rank_type, current_date)
    IN  IF rank_type = "TOTAL" THEN TotalRank(group_data)
        ELSE IF rank_type = "DAILY"
        THEN _calculate_daily_rank(group_data, period.start, period.end)
        ELSE IF rank_type \in {"WEEKLY", "MONTHLY", "YEARLY", "LAST_YEAR"}
        THEN _calculate_period_rank_optimized(group_data, period.start, period.end)
        ELSE <<>>

\* an insertion that puts a new entry before the entries of equal value
InsertBeforeEqual(sorted, x) ==
    LET k == Cardinality({i \in DOMAIN sorted : sorted[i].value > x.value})
    IN  SubSeq(sorted, 1, k) \o <<x>> \o SubSeq(sorted, k + 1, Len(sorted))

\* an insertion keyed by the value: an entry whose value is there already is dropped
InsertUnlessTied(sorted, x) ==
    LET k == Cardinality({i \in DOMAIN sorted : sorted[i].value >= x.value})
    IN  IF \E i \in DOMAIN sorted : sorted[i].value = x.value THEN sorted
        ELSE SubSeq(sorted, 1, k) \o <<x>> \o SubSeq(sorted, k + 1, Len(sorted))

\* one step of a stable descending sort: x goes after every entry of value >= its own
InsertByValue(sorted, x) ==
    LET k == Cardinality({i \in DOMAIN sorted : sorted[i].value >= x.value})
    IN  SubSeq(sorted, 1, k) \o <<x>> \o SubSeq(sorted, k + 1, Len(sorted))

RECURSIVE SortFrom(_, _, _)
SortFrom(entries, i, acc) ==
    IF i > Len(entries) THEN acc
    ELSE SortFrom(entries, i + 1, InsertByValue(acc, entries[i]))

\* sorted(entries, key=lambda x: x[1], reverse=True)
SortedByValueDesc(entries) == SortFrom(entries, 1, <<>>)

\* a role filter that asks for every role of the filter
RoleFilterAll(group_data, roles_filter) ==
    SelectSeq(group_data,
              LAMBDA u : \A i \in DOMAIN roles_filter : roles_filter[i] \in u.roles)

\* [u for u in group_data if any(r in u.roles for r in roles_filter)]
RoleFilter(group_data, roles_filter) ==
    SelectSeq(group_data,
              LAMBDA u : \E i \in DOMAIN roles_filter : roles_filter[i] \in u.roles)

\* _parse_roles_param over the comma-separated parts: ints are kept, the rest skipped
_parse_roles_param(parts) ==
    SortedList({parts[i].v : i \in {j \in DOMAIN parts : parts[j].t = "int"}})

----------------------------------------------------------------------------
(* Validators *)

GROUP_ID_MIN_LENGTH == 5
GROUP_ID_MAX_LENGTH == 32
USER_ID_MIN_LENGTH == 1
USER_ID_MAX_LENGTH == 20
NICKNAME_MAX_LENGTH == 50

DANGEROUS_CHARS == {"<", ">", ":", "\"", "|", "?", "*", "\n", "\r"}

validate_group_id(group_id) ==
    GROUP_ID_MIN_LENGTH <= Len(group_id) /\ Len(group_id) <= GROUP_ID_MAX_LENGTH

validate_user_id(user_id) ==
    USER_ID_MIN_LENGTH <= Len(user_id) /\ Len(user_id) <= USER_ID_MAX_LENGTH

validate_nickname(nickname) ==
    /\ Len(nickname) <= NICKNAME_MAX_LENGTH
    /\ \A i \in 1..Len(nickname) : SubSeq(nickname, i, i) \notin DANGEROUS_CHARS

\* _validate_message_data: the ValueError of a failed validation, or None
_validate_message_data(group_id, user_id, nickname) ==
    IF /\ validate_group_id(group_id)
       /\ validate_user_id(user_id)
       /\ validate_nickname(nickname)
    THEN None ELSE "ValueError"

----------------------------------------------------------------------------
(* Group data store *)

\* dict[key] = value, and the empty dict
Put(d, key, value) == (key :> value) @@ d

EmptyDict == [k \in {} |-> None]

\* del d[key]
Del(d, key) == [k \in (DOMAIN d) \ {key} |-> d[k]]

\* an optional roles argument: roles=None or a list of role ids
NoRoles == [given |-> FALSE, v |-> {}]

SomeRoles(r) == [given |-> TRUE, v |-> r]

UserData(user_id, nickname) ==
    [user_id |-> user_id, nickname |-> nickname, message_count |-> 0,
     history |-> <<>>, roles |-> {}]

\* the index of user_id in a group's list, 0 when absent
IndexOfUser(group_data, user_id) ==
    IF \E i \in DOMAIN group_data : group_data[i].user_id = user_id
    THEN CHOOSE i \in DOMAIN group_data : group_data[i].user_id = user_id
    ELSE 0

\* UserData.add_message: find or create the bucket of `date`, add one to it
add_message(history, date) ==
    IF \E i \in DOMAIN history : history[i].date = date
    THEN LET i == CHOOSE j \in DOMAIN history : history[j].date = date
         IN  [history EXCEPT ![i].count = @ + 1]
    ELSE Append(history, [date |-> date, count |-> 1])

\* data_manager.get_group_data
get_group_data(st, group_id) ==
    IF group_id \in DOMAIN st THEN st[group_id] ELSE <<>>

\* data_manager.update_user_message: the group's list after one more message
update_user_message(st, group_id, user_id, nickname, roles, date) ==
    LET old == get_group_data(st, group_id)
        have == IF IndexOfUser(old, user_id) = 0
                THEN Append(old, UserData(user_id, nickname)) ELSE old
        i == IndexOfUser(have, user_id)
    IN  [have EXCEPT ![i] =
            [@ EXCEPT !.nickname = nickname,
                      !.message_count = @ + 1,
                      !.history = add_message(@, date),
                      !.roles = IF roles.given THEN roles.v ELSE @]]

\* data_manager.save_group_data
save_group_data(st, group_id, group_data) ==
    Put(st, group_id, group_data)

----------------------------------------------------------------------------
(* Nickname and member caches.  c = [nc, dc, mc] are the values of           *)
(* user_nickname_cache, group_members_dict_cache and group_members_cache.   *)

Truthy(x) == x # "" /\ x # None

\* the f-string default name of a user ("user" stands for the two-character prefix)
DefaultName(user_id) == "user" \o user_id

\* what get_group_member_list returns when the call succeeds
RemoteMembers ==
    << [user_id |-> [t |-> "int", v |-> 1], card |-> "Ca", nickname |-> "Na"],
       [user_id |-> [t |-> "int", v |-> 2], card |-> "", nickname |-> "Nb"] >>

\* the outcomes of client.api.call_action: a member list, an empty answer, an
\* exception the handlers list, an exception they do not list
ApiOutcomes == {"ok", "empty", "ConnectionError", "Other"}

IdTruthy(x) == IF x.t = "int" THEN x.v # 0 ELSE x.v # ""

\* {str(m.get("user_id", "")): m for m in members_info if m.get("user_id")}
MembersDict(members_info) ==
    LET live == {i \in DOMAIN members_info : IdTruthy(members_info[i].user_id)}
        keys == {PyStr(members_info[i].user_id) : i \in live}
    IN  [u \in keys |->
            members_info[CHOOSE i \in live :
                /\ PyStr(members_info[i].user_id) = u
                /\ \A j \in live : PyStr(members_info[j].user_id) = u => j <= i]]

\* a display name that never reads the group-specific name
MemberNicknameOnly(member) == member.nickname

\* member.get("card") or member.get("nickname")
_get_display_name_from_member(member) ==
    IF Truthy(member.card) THEN member.card ELSE member.nickname

\* TTLCache.get(key)
CacheGet(cache, key) == IF key \in DOMAIN cache THEN cache[key] ELSE None

_get_from_nickname_cache(user_id, c) == CacheGet(c.nc, user_id)

Found(name, c) == [name |-> name, c |-> c, raised |-> None]

_get_from_dict_cache(group_id, user_id, c) ==
    IF /\ group_id \in DOMAIN c.dc
       /\ user_id \in DOMAIN c.dc[group_id]
       /\ Truthy(_get_display_name_from_member(c.dc[group_id][user_id]))
    THEN LET display_name == _get_display_name_from_member(c.dc[group_id][user_id])
         IN  Found(display_name, [c EXCEPT !.nc = Put(@, user_id, display_name)])
    ELSE Found(None, c)

\* _fetch_group_members_from_api: [members, c, raised]; members = <<>> stands for None
_fetch_group_members_from_api(ev, group_id, c) ==
    IF ev.platform = "kook" THEN [members |-> <<>>, c |-> c, raised |-> None]
    ELSE IF ev.api = "ok"
    THEN [members |-> RemoteMembers,
          c |-> [c EXCEPT !.mc = Put(@, group_id, RemoteMembers)],
          raised |-> None]
    ELSE IF ev.api = "Other"
    THEN [members |-> <<>>, c |-> c, raised |-> "Other"]
    ELSE [members |-> <<>>, c |-> c, raised |-> None]

\* the part of _fetch_and_cache_from_api after the fetch f
CacheFetched(group_id, user_id, f) ==
    LET members_dict == MembersDict(f.members)
        c1 == [f.c EXCEPT !.dc = Put(@, group_id, members_dict)]
    IN  IF f.raised # None THEN [name |-> None, c |-> f.c, raised |-> f.raised]
        ELSE IF f.members = <<>> THEN Found(None, f.c)
        ELSE IF /\ user_id \in DOMAIN members_dict
                /\ Truthy(_get_display_name_from_member(members_dict[user_id]))
        THEN LET display_name == _get_display_name_from_member(members_dict[user_id])
             IN  Found(display_name, [c1 EXCEPT !.nc = Put(@, user_id, display_name)])
        ELSE Found(None, c1)

_fetch_and_cache_from_api(ev, group_id, user_id, c) ==
    CacheFetched(group_id, user_id, _fetch_group_members_from_api(ev, group_id, c))

\* a lookup result r together with the tiers that were consulted to get it
Traced(r, tiers) == [name |-> r.name, c |-> r.c, raised |-> r.raised, tiers |-> tiers]

\* the three tiers in order: t1 the nickname cache, t2 the member dictionary, t3 the
\* remote API; a later tier is looked at only when the earlier ones gave nothing
FirstNickname(user_id, c, t1, t2, t3) ==
    IF Truthy(t1) THEN Traced(Found(t1, c), <<"nickname_cache">>)
    ELSE IF Truthy(t2.name) THEN Traced(t2, <<"nickname_cache", "dict_cache">>)
    ELSE IF t3.raised # None \/ Truthy(t3.name)
    THEN Traced(t3, <<"nickname_cache", "dict_cache", "api">>)
    ELSE Traced(Found(DefaultName(user_id), t3.c),
                <<"nickname_cache", "dict_cache", "api">>)

\* the lookup of the caches after the remote API was asked and gave f
CachesAfterApi(user_id, f, r) ==
    IF f.raised # None \/ Truthy(f.name) THEN Traced(f, <<"api">>)
    ELSE Traced(r, <<"api">> \o r.tiers)

\* a resolution that asks the remote API before the caches
UnifiedApiFirst(ev, group_id, user_id, c) ==
    CachesAfterApi(user_id, _fetch_and_cache_from_api(ev, group_id, user_id, c),
                   FirstNickname(user_id, _fetch_and_cache_from_api(ev, group_id, user_id, c).c,
                                 _get_from_nickname_cache(user_id, c),
                                 _get_from_dict_cache(group_id, user_id, c),
                                 Found(None, _fetch_and_cache_from_api(ev, group_id, user_id, c).c)))

_get_user_nickname_unified(ev, group_id, user_id, c) ==
    FirstNickname(user_id, c,
                  _get_from_nickname_cache(user_id, c),
                  _get_from_dict_cache(group_id, user_id, c),
                  _fetch_and_cache_from_api(ev, group_id, user_id, c))

\* a fallback that ignores the sender name of the event
FallbackPlaceholderOnly(ev, user_id) == DefaultName(user_id)

_get_fallback_nickname(ev, user_id) ==
    IF ~Truthy(ev.sender_name) THEN DefaultName(user_id) ELSE ev.sender_name

\* the part of _get_user_display_name after the unified lookup r
DisplayNameFrom(ev, user_id, r) ==
    IF r.raised # None THEN r
    ELSE IF r.name = DefaultName(user_id)
    THEN Found(_get_fallback_nickname(ev, user_id), r.c)
    ELSE r

_get_user_display_name(ev, group_id, user_id, c) ==
    DisplayNameFrom(ev, user_id, _get_user_nickname_unified(ev, group_id, user_id, c))

----------------------------------------------------------------------------
(* Message hook *)

\* a test for the slash alone
IsSlashText(message_str) ==
    Len(message_str) >= 1 /\ SubSeq(message_str, 1, 1) = "/"

\* message_str.startswith(('%', '/'))
IsCommandText(message_str) ==
    Len(message_str) >= 1 /\ SubSeq(message_str, 1, 1) \in {"%", "/"}

\* _extract_kook_guild_id reads ev.guild_id; "" stands for an absent id
_resolve_stats_group_id(ev) ==
    IF ev.platform = "kook"
    THEN (IF Truthy(ev.guild_id) THEN ev.guild_id ELSE ev.group_id)
    ELSE ev.group_id

\* a bot test that reads the author flag of the raw message on every platform
IsBotByFlagOnly(ev, user_id) == ev.bot_flag

_is_bot_message(ev, user_id) ==
    IF ev.platform = "kook" THEN ev.bot_flag
    ELSE Truthy(ev.self_id) /\ user_id = ev.self_id

\* _collect_group_unified_msg_origin
CollectOrigin(ev, origins) ==
    IF Truthy(ev.group_id) /\ Truthy(ev.origin)
    THEN Put(origins, ev.group_id, ev.origin) ELSE origins

Caches == [nc |-> user_nickname_cache, dc |-> group_members_dict_cache,
           mc |-> group_members_cache]

\* a processor that refreshes the nickname cache and loses the update of the record
ProcessCacheOnly(st, c, group_id, user_id, nickname, roles, date) ==
    [store |-> st,
     c |-> IF CacheGet(c.nc, user_id) # nickname
           THEN [c EXCEPT !.nc = Put(@, user_id, nickname)] ELSE c]

\* _process_message_stats: the store and the nickname cache after a valid message
_process_message_stats(st, c, group_id, user_id, nickname, roles, date) ==
    LET cached_nickname == CacheGet(c.nc, user_id)
    IN  [store |-> Put(st, group_id,
                       update_user_message(st, group_id, user_id, nickname, roles, date)),
         c |-> IF cached_nickname # nickname
               THEN [c EXCEPT !.nc = Put(@, user_id, nickname)] ELSE c]

Recorded(outcome, st, c) == [outcome |-> outcome, store |-> st, c |-> c]

\* a recorder that goes on to count the message after a failed validation
RecordIgnoringValidation(st, c, group_id, user_id, nickname, roles, date) ==
    IF _is_blocked_user(user_id) THEN Recorded("blocked_user", st, c)
    ELSE LET name == IF ~Truthy(nickname) THEN DefaultName(user_id) ELSE nickname
             done == _process_message_stats(st, c, group_id, user_id, name, roles, date)
         IN  Recorded(IF _validate_message_data(group_id, user_id, name) # None
                      THEN "invalid" ELSE "recorded", done.store, done.c)

\* _record_message_stats: every exception of validation is caught here and logged
_record_message_stats(st, c, group_id, user_id, nickname, roles, date) ==
    IF _is_blocked_user(user_id) THEN Recorded("blocked_user", st, c)
    ELSE LET name == IF ~Truthy(nickname) THEN DefaultName(user_id) ELSE nickname
         IN  IF _validate_message_data(group_id, user_id, name) # None
             THEN Recorded("invalid", st, c)
             ELSE LET done == _process_message_stats(st, c, group_id, user_id, name,
                                                     roles, date)
                  IN  Recorded("recorded", done.store, done.c)

HookResult(outcome, st, c, origins, raised) ==
    [outcome |-> outcome, store |-> st, c |-> c, origins |-> origins, raised |-> raised]

Unrecorded(outcome) ==
    HookResult(outcome, store, Caches, group_unified_msg_origins, None)

\* the end of auto_message_listener: n is the display name lookup, r the recording
RecordedAs(origins, n, r) ==
    IF n.raised # None
    THEN HookResult("raised", store, n.c, origins, n.raised)
    ELSE HookResult(r.outcome, r.store, r.c, origins, None)

\* the part of auto_message_listener after the display name lookup n
RecordNamed(ev, group_id, user_id, origins, n) ==
    LET roles == IF ev.platform = "kook" THEN SomeRoles(ev.roles) ELSE NoRoles
    IN  RecordedAs(origins, n,
                   _record_message_stats(store, n.c, group_id, user_id, n.name,
                                         roles, today))

\* auto_message_listener
auto_message_listener(ev) ==
    LET group_id == _resolve_stats_group_id(ev)
        user_id == ev.sender_id
        nickname_group_id == IF Truthy(ev.group_id) THEN ev.group_id ELSE group_id
    IN  IF IsCommandText(ev.message_str) THEN Unrecorded("command")
        ELSE IF ~Truthy(group_id) \/ ~Truthy(user_id) THEN Unrecorded("ignored")
        ELSE IF _is_bot_message(ev, user_id) THEN Unrecorded("bot")
        ELSE IF _is_blocked_group(group_id) THEN Unrecorded("blocked_group")
        ELSE RecordNamed(ev, group_id, user_id,
                         CollectOrigin(ev, group_unified_msg_origins),
                         _get_user_display_name(ev, nickname_group_id, user_id, Caches))

----------------------------------------------------------------------------
(* Rank query *)

DEFAULT_KOOK_GUILD_ID == "8281529857959625"

\* _refresh_nickname_cache_for_ranking after the fetch f: the listed users after the
\* refresh, the caches, how many nicknames changed, and an exception its handler
\* does not list
RefreshFetched(group_id, group_data, f) ==
    LET members_dict == MembersDict(f.members)
        fresh(user) ==
            IF user.user_id \in DOMAIN members_dict
            THEN _get_display_name_from_member(members_dict[user.user_id])
            ELSE None
        stale == {i \in DOMAIN group_data :
                     /\ Truthy(fresh(group_data[i]))
                     /\ group_data[i].nickname # fresh(group_data[i])}
        renamed == [i \in DOMAIN group_data |->
                       IF i \in stale
                       THEN [group_data[i] EXCEPT !.nickname = fresh(group_data[i])]
                       ELSE group_data[i]]
        ids == {group_data[i].user_id : i \in stale}
        nc == [k \in (DOMAIN f.c.nc) \cup ids |->
                  IF k \in ids
                  THEN renamed[CHOOSE i \in stale : group_data[i].user_id = k].nickname
                  ELSE f.c.nc[k]]
    IN  IF f.raised # None
        THEN [group_data |-> group_data, c |-> f.c, updated_count |-> 0,
              raised |-> f.raised]
        ELSE IF f.members = <<>>
        THEN [group_data |-> group_data, c |-> f.c, updated_count |-> 0, raised |-> None]
        ELSE [group_data |-> renamed,
              c |-> [f.c EXCEPT !.dc = Put(@, group_id, members_dict), !.nc = nc],
              updated_count |-> Cardinality(stale), raised |-> None]

_refresh_nickname_cache_for_ranking(ev, group_id, group_data, c) ==
    RefreshFetched(group_id, group_data, _fetch_group_members_from_api(ev, group_id, c))

RankData(found, out, data, st, c, raised) ==
    [found |-> found, out |-> out, data |-> data, store |-> st, c |-> c,
     raised |-> raised]

\* _prepare_rank_data; roles_filter is [given, v]; found = FALSE stands for None
\* the end of _prepare_rank_data: values are the unsorted (user, value) pairs
RankSorted(all_data, st, c, values) ==
    IF values = <<>> THEN RankData(FALSE, <<>>, all_data, st, c, None)
    ELSE RankData(TRUE, SortedByValueDesc(values), all_data, st, c, None)

\* the part of _prepare_rank_data after the nickname refresh r
RankRefreshed(rank_type, group_id, all_data, r) ==
    IF r.raised # None THEN RankData(FALSE, <<>>, all_data, store, r.c, r.raised)
    ELSE RankSorted(all_data,
                    IF r.updated_count > 0
                    THEN save_group_data(store, group_id, r.group_data) ELSE store,
                    r.c,
                    _filter_data_by_rank_type(r.group_data, rank_type, today))

\* the part of _prepare_rank_data after the role filter gave group_data
RankFiltered(ev, rank_type, group_id, all_data, group_data) ==
    IF ~Truthy(group_id) \/ ~Truthy(ev.sender_id)
    THEN RankData(FALSE, <<>>, <<>>, store, Caches, None)
    ELSE IF all_data = <<>> THEN RankData(FALSE, <<>>, all_data, store, Caches, None)
    ELSE IF group_data = <<>> THEN RankData(FALSE, <<>>, all_data, store, Caches, None)
    ELSE RankRefreshed(rank_type, group_id, all_data,
                       _refresh_nickname_cache_for_ranking(ev, group_id, group_data,
                                                           Caches))

_prepare_rank_data(ev, rank_type, group_id, roles_filter) ==
    LET all_data == get_group_data(store, group_id)
    IN  RankFiltered(ev, rank_type, group_id, all_data,
                     IF roles_filter.given /\ roles_filter.v # <<>>
                     THEN RoleFilter(all_data, roles_filter.v) ELSE all_data)

\* f"{x:.2f}" of (user_messages / total_messages) * 100, in hundredths of a
\* percent: the nearest hundredth, a tie going to the even one
Percentage(user_messages, total_messages) ==
    IF total_messages > 0
    THEN LET q == (user_messages * 10000) \div total_messages
             r == (user_messages * 10000) % total_messages
         IN  IF 2 * r < total_messages THEN q
             ELSE IF 2 * r > total_messages THEN q + 1
             ELSE IF q % 2 = 0 THEN q ELSE q + 1
    ELSE 0

\* users_with_values[:n] for n >= 0
TopUsers(users_with_values, n) ==
    SubSeq(users_with_values, 1, IF n < Len(users_with_values) THEN n
                                 ELSE Len(users_with_values))

\* sum(sort_value for _, sort_value in users_with_values)
TotalMessages(users_with_values) ==
    SumSeq([i \in DOMAIN users_with_values |-> users_with_values[i].value])

\* the text of a rank: the total and one row per shown user (position, user,
\* value, percentage); the user stands for the nickname the row prints
TextOf(top_users, total_messages) ==
    [total |-> total_messages,
     rows |-> [i \in DOMAIN top_users |->
                  [pos |-> i, user |-> top_users[i].user, value |-> top_users[i].value,
                   percentage |-> Percentage(top_users[i].value, total_messages)]]]

NoText == [total |-> 0, rows |-> <<>>]

\* a text whose total and percentages are taken over the displayed slice
TextOverDisplayed(users_with_values, config) ==
    TextOf(TopUsers(users_with_values, config.rand),
           TotalMessages(TopUsers(users_with_values, config.rand)))

\* _generate_text_message
_generate_text_message(users_with_values, config) ==
    TextOf(TopUsers(users_with_values, config.rand), TotalMessages(users_with_values))

\* what image_generator.generate_rank_image does for an event: it writes the file,
\* returns the path of a file that is not there, or raises. "OSError" stands for
\* IOError, OSError, FileNotFoundError and their subclasses, "TypeError" for
\* AttributeError, KeyError and TypeError, "Other" for every class that neither
\* _render_rank_as_image nor _show_rank lists.
ImageOutcomes ==
    {"ok", "missing", "OSError", "ImportError", "RuntimeError", "ValueError",
     "TypeError", "Other"}

Rendered(msgs, raised) == [msgs |-> msgs, raised |-> raised]

\* _render_rank_as_image: the image, the text rendering when the file is missing
\* or a listed exception was raised, and the exception itself otherwise
_render_rank_as_image(ev) ==
    IF ev.image = "ok" THEN Rendered(<<"rank_image">>, None)
    ELSE IF ev.image \in {"missing", "OSError", "ImportError", "RuntimeError", "ValueError"}
    THEN Rendered(<<"rank_text">>, None)
    ELSE Rendered(<<>>, ev.image)

\* the exception handlers of _show_rank around the rendering: of the classes the
\* renderer lets through they list AttributeError, KeyError and TypeError
RankHandlers(x) ==
    IF x.raised = "TypeError" THEN Rendered(<<"data_format_error">>, None)
    ELSE x

\* the rendering of a rank as _show_rank ends it: the messages yielded and the
\* exception that leaves the command
RenderRank(ev, config) ==
    IF config.if_send_pic THEN RankHandlers(_render_rank_as_image(ev))
    ELSE Rendered(<<"rank_text">>, None)

RankResult(msgs, d) ==
    [sent |-> msgs, found |-> d.found, out |-> d.out, data |-> d.data,
     store |-> d.store, c |-> d.c, raised |-> d.raised]

NoRankData == RankData(FALSE, <<>>, <<>>, store, Caches, None)

\* the group a rank query is about: the explicit target, the default kook guild, or
\* the group of the event
RankTarget(ev, q) ==
    LET event_platform == ev.platform
        target_group_id ==
            IF Truthy(q.hint) /\ ~Truthy(q.target)
            THEN (IF q.hint = "kook" THEN DEFAULT_KOOK_GUILD_ID
                  ELSE IF Truthy(event_platform) /\ q.hint = event_platform
                  THEN _resolve_stats_group_id(ev) ELSE "")
            ELSE q.target
    IN  IF ~Truthy(target_group_id) THEN _resolve_stats_group_id(ev)
        ELSE target_group_id

\* the end of _show_rank: d is what _prepare_rank_data returned
RankAnswer(ev, roles_filter, d) ==
    IF d.raised # None THEN RankResult(<<>>, d)
    ELSE IF ~d.found
    THEN RankResult(IF roles_filter.given THEN <<"no_roles_data">> ELSE <<"no_data">>, d)
    ELSE RankResult(RenderRank(ev, plugin_config).msgs,
                    [d EXCEPT !.raised = RenderRank(ev, plugin_config).raised])

\* early answers that let a role filter through whatever platform the query names
RankEarlyAnyPlatform(ev, q, roles_filter, target_group_id) ==
    IF roles_filter.given /\ roles_filter.v = <<>>
    THEN [early |-> TRUE, msgs |-> <<"roles_format">>]
    ELSE IF /\ Truthy(q.hint) /\ ~Truthy(q.target) /\ q.hint # "kook"
            /\ ~(Truthy(ev.platform) /\ q.hint = ev.platform)
    THEN [early |-> TRUE, msgs |-> <<"need_target">>]
    ELSE IF ~Truthy(target_group_id) THEN [early |-> TRUE, msgs |-> <<"no_group">>]
    ELSE IF ~validate_group_id(target_group_id)
    THEN [early |-> TRUE, msgs |-> <<"bad_group">>]
    ELSE IF _is_blocked_group(target_group_id) THEN [early |-> TRUE, msgs |-> <<>>]
    ELSE [early |-> FALSE, msgs |-> <<>>]

\* the answers _show_rank gives before it asks for the data: [early, msgs]
RankEarly(ev, q, roles_filter, target_group_id) ==
    IF roles_filter.given /\ q.hint # "kook"
    THEN [early |-> TRUE, msgs |-> <<"roles_need_kook">>]
    ELSE IF roles_filter.given /\ roles_filter.v = <<>>
    THEN [early |-> TRUE, msgs |-> <<"roles_format">>]
    ELSE IF /\ Truthy(q.hint) /\ ~Truthy(q.target) /\ q.hint # "kook"
            /\ ~(Truthy(ev.platform) /\ q.hint = ev.platform)
    THEN [early |-> TRUE, msgs |-> <<"need_target">>]
    ELSE IF ~Truthy(target_group_id) THEN [early |-> TRUE, msgs |-> <<"no_group">>]
    ELSE IF ~validate_group_id(target_group_id)
    THEN [early |-> TRUE, msgs |-> <<"bad_group">>]
    ELSE IF _is_blocked_group(target_group_id) THEN [early |-> TRUE, msgs |-> <<>>]
    ELSE [early |-> FALSE, msgs |-> <<>>]

\* the part of _show_rank after the roles and the target group are known
RankFor(ev, q, roles_filter, target_group_id) ==
    IF RankEarly(ev, q, roles_filter, target_group_id).early
    THEN RankResult(RankEarly(ev, q, roles_filter, target_group_id).msgs, NoRankData)
    ELSE RankAnswer(ev, roles_filter,
                    _prepare_rank_data(ev, q.rank_type, target_group_id, roles_filter))

\* _show_rank for a parsed query q = [rank_type, target, hint, roles_given, roles_parts]
_show_rank(ev, q) ==
    RankFor(ev, q,
            [given |-> q.roles_given,
             v |-> IF q.roles_given THEN _parse_roles_param(q.roles_parts) ELSE <<>>],
            RankTarget(ev, q))

----------------------------------------------------------------------------
(* Bounds and input domains *)

MaxCalls == 2           \* messages recorded in one behaviour
MaxTicks == 1           \* midnights passed in one behaviour
MaxUsers == 2           \* users of a preloaded group
MaxHist == 3            \* buckets of an aggregator input
NumHistDays == 4        \* distinct dates of an aggregator input
NumWindowDays == 72     \* dates the window resolver is applied to

G1 == "10001"
ShortGroup == "123"
LongUser == "123456789012345678901"
UserIds == {"1", "2", "3"}

StartDay == MkDate(2023, 12, 31)
FirstWindowDay == MkDate(2023, 12, 25)
FirstHistDay == MkDate(2024, 1, 14)

DefaultConfig ==
    [blocked_users |-> <<>>, blocked_groups |-> <<>>, if_send_pic |-> FALSE, rand |-> 20,
     timer_enabled |-> FALSE, timer_push_time |-> "09:00", timer_target_groups |-> <<>>,
     timer_rank_type |-> "total"]

Configs ==
    { DefaultConfig,
      [DefaultConfig EXCEPT !.blocked_users = <<[t |-> "int", v |-> 2]>>,
                            !.if_send_pic = TRUE] }

BaseEvent ==
    [message_str |-> "hi", platform |-> "qq", group_id |-> G1, guild_id |-> "",
     sender_id |-> "1", self_id |-> "9", bot_flag |-> FALSE, sender_name |-> "Al",
     roles |-> {}, origin |-> "qq:10001", api |-> "ok", image |-> "ok"]

QQEvents ==
    { [BaseEvent EXCEPT !.sender_id = u, !.api = a] : u \in {"1", "2"}, a \in ApiOutcomes }
    \cup { [BaseEvent EXCEPT !.sender_name = "", !.api = "ConnectionError"] }

\* events whose group id, user id or sender name breaks the validation policy
BadEvents ==
    { [BaseEvent EXCEPT !.group_id = ShortGroup, !.api = "ConnectionError"],
      [BaseEvent EXCEPT !.sender_id = LongUser, !.api = "ConnectionError"],
      [BaseEvent EXCEPT !.sender_id = "3", !.sender_name = "a<b", !.api = "empty"],
      [BaseEvent EXCEPT !.platform = "kook", !.guild_id = ShortGroup] }

KookEvents ==
    { [BaseEvent EXCEPT !.platform = "kook", !.origin = "kook:10001", !.guild_id = G1,
                        !.sender_id = "2", !.roles = r] : r \in {{1, 2}, {4}} }
    \cup { [BaseEvent EXCEPT !.platform = "kook", !.origin = "kook:10001",
                             !.roles = {4}] }

OtherEvents ==
    { [BaseEvent EXCEPT !.message_str = "/rank"],
      [BaseEvent EXCEPT !.message_str = "%x"],
      [BaseEvent EXCEPT !.group_id = ""],
      [BaseEvent EXCEPT !.self_id = "1"],
      [BaseEvent EXCEPT !.platform = "kook", !.bot_flag = TRUE] }

Events == QQEvents \cup BadEvents \cup KookEvents \cup OtherEvents

IntTok(n) == [t |-> "int", v |-> n]

JunkTok == [t |-> "str", v |-> "x"]

PlainQuery(rank_type) ==
    [rank_type |-> rank_type, target |-> "", hint |-> None,
     roles_given |-> FALSE, roles_parts |-> <<>>]

KookQuery(rank_type, parts) ==
    [PlainQuery(rank_type) EXCEPT !.target = G1, !.hint = "kook",
                                  !.roles_given = TRUE, !.roles_parts = parts]

PlainQueries == { PlainQuery(rt) : rt \in RankTypes }

Queries ==
    PlainQueries
    \cup { KookQuery(rt, <<IntTok(3), IntTok(2)>>) : rt \in {"TOTAL", "DAILY", "WEEKLY"} }
    \cup { KookQuery("TOTAL", <<IntTok(4), JunkTok>>),
           KookQuery("TOTAL", <<JunkTok>>),
           [PlainQuery("TOTAL") EXCEPT !.roles_given = TRUE, !.roles_parts = <<IntTok(4)>>],
           [PlainQuery("TOTAL") EXCEPT !.hint = "kook"],
           [PlainQuery("TOTAL") EXCEPT !.hint = "qq"],
           [PlainQuery("TOTAL") EXCEPT !.target = ShortGroup] }

QueryEvent(platform, api, image) ==
    [BaseEvent EXCEPT !.message_str = "/rank", !.platform = platform, !.api = api,
                      !.image = image]

HookQueryEvents == { QueryEvent("qq", "ConnectionError", "ok") }

HookQueries == { PlainQuery("TOTAL"), PlainQuery("WEEKLY") }

\* the events of the full machine: two users, one renamed, and a rejected group id
HookEvents ==
    { [BaseEvent EXCEPT !.sender_id = u, !.api = "ConnectionError"] : u \in {"1", "2"} }
    \cup { [BaseEvent EXCEPT !.api = "ok"],
           [BaseEvent EXCEPT !.group_id = ShortGroup, !.origin = "qq:123"] }

QueryEvents ==
    { QueryEvent("qq", "ok", "ok"), QueryEvent("kook", "ok", "missing") }

\* preloaded groups: every list of at most MaxUsers users with distinct ids
DayA == MkDate(2023, 12, 30)
DayC == MkDate(2024, 1, 3)
RankDay == MkDate(2024, 1, 3)

RolesOf(user_id) ==
    IF user_id = "1" THEN {1, 2} ELSE IF user_id = "2" THEN {4} ELSE {}

Bucket(d, n) == [date |-> d, count |-> n]

\* [history, message_count]: never spoke; older than history tracking; spoke twice
\* today; spoke today and, stored after it, last year
Activities ==
    { [history |-> <<>>, message_count |-> 0],
      [history |-> <<>>, message_count |-> 3],
      [history |-> <<Bucket(DayC, 2)>>, message_count |-> 2],
      [history |-> <<Bucket(DayC, 1), Bucket(DayA, 1)>>, message_count |-> 2] }

StoredUsers ==
    { [user_id |-> u, nickname |-> "N" \o u, message_count |-> a.message_count,
       history |-> a.history, roles |-> RolesOf(u)] : u \in UserIds, a \in Activities }

RECURSIVE UserLists(_)
UserLists(n) ==
    IF n = 0 THEN {<<>>}
    ELSE LET shorter == UserLists(n - 1)
         IN  shorter \cup
             { Append(l, u) : l \in {x \in shorter : Len(x) = n - 1},
                              u \in StoredUsers }

DistinctIds(l) == \A i, j \in DOMAIN l : i # j => l[i].user_id # l[j].user_id

RankStores == { l \in UserLists(MaxUsers) : l # <<>> /\ DistinctIds(l) }

RankConfigs ==
    { DefaultConfig,
      [DefaultConfig EXCEPT !.blocked_users = <<[t |-> "int", v |-> 2]>>,
                            !.if_send_pic = TRUE] }

----------------------------------------------------------------------------
(* State machine *)

IdleScan == [count |-> 0, scanned |-> 0, path |-> "idle"]

NoRank ==
    [rank_type |-> None, roles |-> [given |-> FALSE, v |-> <<>>], today |-> 0,
     data |-> <<>>, blocked |-> <<>>, out |-> <<>>, found |-> FALSE, text |-> NoText,
     hint |-> None]

NoHook == "none"

\* no lookup was timed yet
NotServed == [tier |-> None, age |-> 0]

NoStamps == [nc |-> EmptyDict, mc |-> EmptyDict, dc |-> EmptyDict]

\* no command is suspended
NoTask == [pc |-> "idle"]

\* a handler that ran to its end: name, nicknames it changed, whether it saved the
\* group, what its member fetch gave, how many refresh commands with that fetch
\* ended in a row with no message recorded since the first of them began, and
\* how many commands were started so far
Command(name, updated_count, saved, api, streak) ==
    [name |-> name, updated_count |-> updated_count, saved |-> saved, api |-> api,
     streak |-> streak, started |-> 0, arg |-> <<>>]

NoCommand == Command("none", 0, FALSE, None, 0)

\* save_json_file is not running; nothing was loaded yet
NoSave == [pc |-> "idle", text |-> <<>>, prev |-> <<>>]

NotLoaded == [data |-> <<>>, raised |-> None]

FileIdle == f_disk = <<>> /\ f_save = NoSave /\ f_loaded = NotLoaded

\* no wrapped function was called yet
NoCall == [kind |-> "none", raised |-> None, result |-> None, default_return |-> None,
           returned |-> None, escaped |-> None]

CommandIdle ==
    /\ k_now = 0 /\ k_stamps = NoStamps /\ k_served = NotServed
    /\ task = NoTask
    /\ last_cmd = NoCommand
    /\ x_call = NoCall

AuxIdle == CommandIdle /\ FileIdle

aux_vars == <<k_now, k_stamps, k_served, task, last_cmd,
      f_disk, f_save, f_loaded, x_call>>

ScanIdle ==
    /\ h_history = <<>> /\ h_start = 0 /\ h_end = 0
    /\ h_fast = IdleScan /\ h_slow = IdleScan
    /\ w_type = None /\ w_period = Period(None, None, "idle") /\ w_week = 0

HarnessIdle == ScanIdle /\ AuxIdle

harness_vars ==
    <<h_history, h_start, h_end, h_fast, h_slow, w_type, w_period, w_week,
      k_now, k_stamps, k_served, task, last_cmd,
      f_disk, f_save, f_loaded, x_call>>

Init ==
    /\ today = StartDay
    /\ store = EmptyDict
    /\ plugin_config \in Configs
    /\ user_nickname_cache = EmptyDict
    /\ group_members_cache = EmptyDict
    /\ group_members_dict_cache = EmptyDict
    /\ group_unified_msg_origins = EmptyDict
    /\ sent = <<>>
    /\ escaped = FALSE
    /\ last_rank = NoRank
    /\ last_hook = NoHook
    /\ calls = EmptyDict
    /\ HarnessIdle

CallKey(group_id, user_id) == <<group_id, user_id>>

RECURSIVE SumOver(_, _)
SumOver(f, keys) ==
    IF keys = {} THEN 0
    ELSE LET k == CHOOSE x \in keys : TRUE
         IN  f[k] + SumOver(f, keys \ {k})

TotalCalls == SumOver(calls, DOMAIN calls)

CallsOf(group_id, user_id) ==
    IF CallKey(group_id, user_id) \in DOMAIN calls
    THEN calls[CallKey(group_id, user_id)] ELSE 0

\* one inbound message event, handled by auto_message_listener, while fewer than
\* max messages were recorded
HookStep(events, max) ==
    \E ev \in events :
        \E r \in {auto_message_listener(ev)} :
        LET group_id == _resolve_stats_group_id(ev)
        IN  /\ TotalCalls < max
            /\ store' = r.store
            /\ user_nickname_cache' = r.c.nc
            /\ group_members_dict_cache' = r.c.dc
            /\ group_members_cache' = r.c.mc
            /\ group_unified_msg_origins' = r.origins
            /\ sent' = <<>>
            /\ escaped' = (r.raised # None)
            /\ last_hook' = r.outcome
            /\ calls' = IF r.outcome = "recorded"
                        THEN Put(calls, CallKey(group_id, ev.sender_id),
                                 CallsOf(group_id, ev.sender_id) + 1)
                        ELSE calls
            /\ UNCHANGED <<today, plugin_config, last_rank>>

MessageHook(events) == HookStep(events, MaxCalls) /\ UNCHANGED harness_vars

\* one rank command, handled by _show_rank
ShowRank(events, queries) ==
    \E ev \in events, q \in queries :
        \E r \in {_show_rank(ev, q)} :
            /\ store' = r.store
            /\ user_nickname_cache' = r.c.nc
            /\ group_members_dict_cache' = r.c.dc
            /\ group_members_cache' = r.c.mc
            /\ sent' = r.sent
            /\ escaped' = (r.raised # None)
            /\ last_rank' =
                   [rank_type |-> q.rank_type,
                    roles |-> [given |-> q.roles_given,
                               v |-> IF q.roles_given
                                     THEN _parse_roles_param(q.roles_parts) ELSE <<>>],
                    today |-> today, data |-> r.data,
                    blocked |-> plugin_config.blocked_users,
                    out |-> r.out, found |-> r.found, hint |-> q.hint,
                    text |-> IF r.sent = <<"rank_text">>
                             THEN _generate_text_message(r.out, plugin_config)
                             ELSE NoText]
            /\ UNCHANGED <<today, plugin_config, group_unified_msg_origins, last_hook,
                           calls>>
            /\ UNCHANGED harness_vars

\* midnight: datetime.now().date() moves to the next day
Tick ==
    /\ today < StartDay + MaxTicks
    /\ today' = today + 1
    /\ UNCHANGED <<store, plugin_config, user_nickname_cache, group_members_cache,
                   group_members_dict_cache, group_unified_msg_origins, sent, escaped,
                   last_rank, last_hook, calls>>
    /\ UNCHANGED harness_vars

\* the TTL of the nickname cache entries runs out
ExpireNickname ==
    /\ user_nickname_cache # EmptyDict
    /\ user_nickname_cache' = EmptyDict
    /\ UNCHANGED <<today, store, plugin_config, group_members_cache,
                   group_members_dict_cache, group_unified_msg_origins, sent,
                   escaped, last_rank, last_hook, calls>>
    /\ UNCHANGED harness_vars

\* the TTL of the member list cache entries runs out
ExpireMembers ==
    /\ group_members_cache # EmptyDict
    /\ group_members_cache' = EmptyDict
    /\ UNCHANGED <<today, store, plugin_config, user_nickname_cache,
                   group_members_dict_cache, group_unified_msg_origins, sent,
                   escaped, last_rank, last_hook, calls>>
    /\ UNCHANGED harness_vars

Next ==
    \/ MessageHook(HookEvents)
    \/ ShowRank(HookQueryEvents, HookQueries)
    \/ Tick
    \/ ExpireNickname
    \/ ExpireMembers

Spec == Init /\ [][Next]_vars

InitRank ==
    /\ today = RankDay
    /\ \E l \in RankStores : store = Put(EmptyDict, G1, l)
    /\ plugin_config \in RankConfigs
    /\ user_nickname_cache = EmptyDict
    /\ group_members_cache = EmptyDict
    /\ group_members_dict_cache = EmptyDict
    /\ group_unified_msg_origins = EmptyDict
    /\ sent = <<>>
    /\ escaped = FALSE
    /\ last_rank = NoRank
    /\ last_hook = NoHook
    /\ calls = EmptyDict
    /\ HarnessIdle

NextRank == ShowRank(QueryEvents, Queries)

\* rank queries over preloaded groups
SpecRank == InitRank /\ [][NextRank]_vars

NextRecord == MessageHook(Events) \/ Tick \/ ExpireNickname \/ ExpireMembers

\* message recording alone: no rank query, no refresh
SpecRecord == Init /\ [][NextRecord]_vars

InitWindow ==
    /\ today \in FirstWindowDay..(FirstWindowDay + NumWindowDays - 1)
    /\ store = EmptyDict
    /\ plugin_config = DefaultConfig
    /\ user_nickname_cache = EmptyDict
    /\ group_members_cache = EmptyDict
    /\ group_members_dict_cache = EmptyDict
    /\ group_unified_msg_origins = EmptyDict
    /\ sent = <<>>
    /\ escaped = FALSE
    /\ last_rank = NoRank
    /\ last_hook = NoHook
    /\ calls = EmptyDict
    /\ HarnessIdle

plugin_vars ==
    <<today, store, plugin_config, user_nickname_cache, group_members_cache,
      group_members_dict_cache, group_unified_msg_origins, sent, escaped, last_rank,
      last_hook, calls>>

\* one call of _get_time_period_for_rank_type and one of date_utils.get_week_start
ResolveWindow ==
    \E rank_type \in RankTypes :
        /\ w_type' = rank_type
        /\ w_period' = TimePeriod(rank_type, today)
        /\ w_week' = get_week_start(today)
        /\ UNCHANGED <<h_history, h_start, h_end, h_fast, h_slow>>
        /\ UNCHANGED aux_vars
        /\ UNCHANGED plugin_vars

NextWindow == ResolveWindow

\* the window resolver applied on every date of a range
SpecWindow == InitWindow /\ [][NextWindow]_vars

HistDays == FirstHistDay..(FirstHistDay + NumHistDays - 1)

RECURSIVE Histories(_)
\* histories of at most n day buckets, one bucket per date, in any order
Histories(n) ==
    IF n = 0 THEN {<<>>}
    ELSE LET shorter == Histories(n - 1)
         IN  shorter \cup
             { Append(h, Bucket(d, k)) :
                   h \in {x \in shorter : Len(x) = n - 1}, d \in HistDays, k \in 1..2 }

OneBucketPerDate(h) == \A i, j \in DOMAIN h : i # j => h[i].date # h[j].date

InitCount ==
    /\ h_history \in { h \in Histories(MaxHist) : OneBucketPerDate(h) }
    /\ h_start \in HistDays
    /\ h_end \in HistDays
    /\ h_start <= h_end
    /\ h_fast = IdleScan
    /\ h_slow = IdleScan
    /\ w_type = None /\ w_period = Period(None, None, "idle") /\ w_week = 0
    /\ AuxIdle
    /\ today = StartDay
    /\ store = EmptyDict
    /\ plugin_config = DefaultConfig
    /\ user_nickname_cache = EmptyDict
    /\ group_members_cache = EmptyDict
    /\ group_members_dict_cache = EmptyDict
    /\ group_unified_msg_origins = EmptyDict
    /\ sent = <<>>
    /\ escaped = FALSE
    /\ last_rank = NoRank
    /\ last_hook = NoHook
    /\ calls = EmptyDict

\* one call of each period counter on the same history and window
CountInPeriod ==
    /\ h_fast' = CountFastTrace(h_history, h_start, h_end)
    /\ h_slow' = CountUnorderedTrace(h_history, h_start, h_end)
    /\ UNCHANGED <<h_history, h_start, h_end, w_type, w_period, w_week>>
    /\ UNCHANGED aux_vars
    /\ UNCHANGED plugin_vars

NextCount == CountInPeriod

\* the period counters applied to every bounded history and window
SpecCount == InitCount /\ [][NextCount]_vars

----------------------------------------------------------------------------
(* Properties *)

StoredRecords == UNION { SeqToSet(store[g]) : g \in DOMAIN store }

BucketCounts(history) == [i \in DOMAIN history |-> history[i].count]

\* the buckets of a history whose date lies in [start_date, end_date], summed
BucketSum(history, start_date, end_date) ==
    SumSeq([i \in DOMAIN history |->
               IF start_date <= history[i].date /\ history[i].date <= end_date
               THEN history[i].count ELSE 0])

\* C1: after any sequence of recorded messages, each stored user's message_count is
\* the number of successful calls for that (group, user), and the counts of the
\* user's history buckets add up to message_count.
C1_CountMatchesCalls ==
    /\ \A g \in DOMAIN store : \A i \in DOMAIN store[g] :
           /\ store[g][i].message_count = CallsOf(g, store[g][i].user_id)
           /\ SumSeq(BucketCounts(store[g][i].history)) = store[g][i].message_count
    /\ \A k \in DOMAIN calls :
           k[1] \in DOMAIN store /\ IndexOfUser(store[k[1]], k[2]) # 0

\* a user recorded twice, on two different days
C1_Witness ==
    \E u \in StoredRecords :
        u.message_count = 2 /\ Len(u.history) = 2 /\ CallsOf(G1, u.user_id) = 2

\* C2: the windowed count of a history is the sum of the bucket counts whose date
\* lies in the window; for a one-day window it is that day's bucket value.
C2_CountIsBucketSum ==
    h_fast.path # "idle" =>
        /\ h_fast.count = BucketSum(h_history, h_start, h_end)
        /\ h_slow.count = BucketSum(h_history, h_start, h_end)

RECURSIVE Reorderings(_)
\* every reordering of a sequence
Reorderings(s) ==
    IF s = <<>> THEN {<<>>}
    ELSE UNION { { <<s[i]>> \o p :
                     p \in Reorderings([k \in 1..(Len(s) - 1) |->
                                            IF k < i THEN s[k] ELSE s[k + 1]]) } :
                 i \in DOMAIN s }

\* C3: the early-exit counter and the exhaustive scan return the same total on every
\* history and window, and the total is the same for every reordering of the history.
C3_FastEqualsUnordered ==
    h_fast.path # "idle" =>
        /\ h_fast.count = h_slow.count
        /\ \A p \in Reorderings(h_history) :
               /\ _count_messages_in_period_fast(p, h_start, h_end) = h_fast.count
               /\ _count_messages_in_period_unordered(p, h_start, h_end) = h_slow.count

\* a history in order at its first pair and out of order at its second, with the
\* late entry inside the window
C3_Witness ==
    /\ h_fast.path = "unordered"
    /\ Len(h_history) = 3
    /\ h_history[1].date < h_history[2].date
    /\ h_history[2].date > h_end
    /\ h_history[3].date >= h_start /\ h_history[3].date <= h_end
    /\ h_fast.count >= 1

RankedUsers == { last_rank.out[i].user : i \in DOMAIN last_rank.out }

DataOf(user_id) ==
    last_rank.data[CHOOSE i \in DOMAIN last_rank.data :
                       last_rank.data[i].user_id = user_id]

DataIndex(user_id) ==
    CHOOSE i \in DOMAIN last_rank.data : last_rank.data[i].user_id = user_id

BlockedIds == { PyStr(last_rank.blocked[i]) : i \in DOMAIN last_rank.blocked }

\* C4: every user listed by a rank of any type has a value above zero, and a user
\* with message_count 0 and an empty history is never listed.
C4_ListedValuesPositive ==
    \A i \in DOMAIN last_rank.out :
        /\ last_rank.out[i].value > 0
        /\ ~(/\ DataOf(last_rank.out[i].user).message_count = 0
             /\ DataOf(last_rank.out[i].user).history = <<>>)

\* a total rank over a group that holds a user who never spoke
C4_Witness ==
    /\ last_rank.rank_type = "TOTAL"
    /\ last_rank.found
    /\ \E i \in DOMAIN last_rank.data :
           last_rank.data[i].message_count = 0 /\ last_rank.data[i].history = <<>>

\* C5: a user whose id is in the user block list is listed by no rank of any type.
C5_BlockedNeverListed ==
    \A i \in DOMAIN last_rank.out : last_rank.out[i].user \notin BlockedIds

\* a rank that lists someone while an active user of the group is blocked
C5_Witness ==
    /\ last_rank.found
    /\ \E i \in DOMAIN last_rank.data :
           /\ last_rank.data[i].user_id \in BlockedIds
           /\ last_rank.data[i].message_count > 0
           /\ last_rank.data[i].history # <<>>

\* C6: the rank list is in descending order of value, and users of equal value are
\* in the order they have in the group's record collection.
C6_DescendingStable ==
    \A i, j \in DOMAIN last_rank.out :
        i < j =>
            /\ last_rank.out[i].value >= last_rank.out[j].value
            /\ (last_rank.out[i].value = last_rank.out[j].value
                  => DataIndex(last_rank.out[i].user) < DataIndex(last_rank.out[j].user))

\* a rank of two users with the same value
C6_Witness ==
    /\ Len(last_rank.out) >= 2
    /\ last_rank.out[1].value = last_rank.out[2].value

RoleSet == SeqToSet(last_rank.roles.v)

RankAnswered == sent \in {<<"rank_text">>, <<"rank_image">>, <<"no_roles_data">>}

\* C7: under a role filter F every listed user has a role in F, and in the total
\* rank a user is listed iff one of the user's roles is in F (and the user has
\* spoken and is not blocked): roles {1,2} are listed under {2,3}, not under {4}.
C7_RoleFilterIsOr ==
    (last_rank.roles.given /\ RankAnswered) =>
        /\ \A u \in RankedUsers : DataOf(u).roles \cap RoleSet # {}
        /\ last_rank.rank_type = "TOTAL" =>
               \A i \in DOMAIN last_rank.data :
                   LET u == last_rank.data[i]
                   IN  (u.user_id \in RankedUsers) <=>
                           /\ u.roles \cap RoleSet # {}
                           /\ u.message_count > 0
                           /\ u.user_id \notin BlockedIds
        /\ \A i \in DOMAIN last_rank.data :
               (/\ last_rank.data[i].roles = {1, 2}
                /\ last_rank.data[i].message_count > 0
                /\ last_rank.rank_type = "TOTAL"
                /\ last_rank.data[i].user_id \notin BlockedIds)
               => /\ RoleSet = {2, 3} => last_rank.data[i].user_id \in RankedUsers
                  /\ RoleSet = {4} => last_rank.data[i].user_id \notin RankedUsers

\* a total rank under the filter {2,3} that lists a user with roles {1,2}
C7_Witness ==
    /\ last_rank.roles.given
    /\ last_rank.rank_type = "TOTAL"
    /\ RoleSet = {2, 3}
    /\ \E u \in RankedUsers : DataOf(u).roles = {1, 2}

\* C8: the weekly window is [m, today] with m the latest Monday not after today;
\* 2024-01-15 gives [2024-01-15, 2024-01-15], 2024-01-17 gives
\* [2024-01-15, 2024-01-17]; date_utils.get_week_start returns the same m.
C8_WeeklyWindow ==
    w_type = "WEEKLY" =>
        /\ w_period.end = today
        /\ Weekday(w_period.start) = 0
        /\ w_period.start <= today
        /\ today - w_period.start <= 6
        /\ today = MkDate(2024, 1, 15) => w_period.start = MkDate(2024, 1, 15)
        /\ today = MkDate(2024, 1, 17) => w_period.start = MkDate(2024, 1, 15)
        /\ w_week = w_period.start

\* the weekly window resolved on Wednesday 2024-01-17
C8_Witness ==
    /\ w_type = "WEEKLY"
    /\ today = MkDate(2024, 1, 17)
    /\ w_period.start = MkDate(2024, 1, 15)
    /\ w_period.end = MkDate(2024, 1, 17)

Windowed == {"DAILY", "WEEKLY", "MONTHLY", "YEARLY", "LAST_YEAR"}

\* C9: TOTAL has no window, DAILY is [today, today], MONTHLY starts on the first of
\* today's month, YEARLY on Jan 1 of today's year, both ending today, LAST_YEAR is
\* [Jan 1, Dec 31] of the year before; every window has start <= end, and the
\* LAST_YEAR window ends before the YEARLY window starts.
C9_WindowTable ==
    /\ w_type = "TOTAL" => w_period.start = None /\ w_period.end = None
    /\ w_type = "DAILY" => w_period.start = today /\ w_period.end = today
    /\ w_type = "MONTHLY" =>
           /\ YearOf(w_period.start) = YearOf(today)
           /\ MonthOf(w_period.start) = MonthOf(today)
           /\ DayOf(w_period.start) = 1
           /\ w_period.end = today
    /\ w_type = "YEARLY" =>
           /\ YearOf(w_period.start) = YearOf(today)
           /\ MonthOf(w_period.start) = 1
           /\ DayOf(w_period.start) = 1
           /\ w_period.end = today
    /\ w_type = "LAST_YEAR" =>
           /\ YearOf(w_period.start) = YearOf(today) - 1
           /\ MonthOf(w_period.start) = 1
           /\ DayOf(w_period.start) = 1
           /\ YearOf(w_period.end) = YearOf(today) - 1
           /\ MonthOf(w_period.end) = 12
           /\ DayOf(w_period.end) = 31
           /\ w_period.end < TimePeriod("YEARLY", today).start
    /\ w_type \in Windowed => w_period.start <= w_period.end

\* the window of last year resolved on the leap day of 2024
C9_Witness ==
    /\ w_type = "LAST_YEAR"
    /\ today = MkDate(2024, 2, 29)
    /\ w_period.start = MkDate(2023, 1, 1)
    /\ w_period.end = MkDate(2023, 12, 31)

C13_UsersNeverRemoved ==
    [][\A g \in DOMAIN store :
          /\ g \in DOMAIN store'
          /\ \A i \in DOMAIN store[g] :
                 IndexOfUser(store'[g], store[g][i].user_id) # 0]_vars

\* a valid group id no message was ever recorded for
UnseenGroup == "20002"

\* what _show_rank tells the user, and what _prepare_rank_data hands to it, when the
\* last query is asked about a group the store does not know
MissAnswer(ev) ==
    RankAnswer(ev, last_rank.roles,
               _prepare_rank_data(ev, last_rank.rank_type, UnseenGroup, last_rank.roles))

\* C15: when the last rank query was about a stored group in which no user
\* qualified, its result (the value handed to _show_rank and the message sent)
\* differs from the result of the same query about a group never seen.
C15_EmptyDiffersFromMiss ==
    (/\ last_rank.data # <<>>
     /\ ~last_rank.found
     /\ ~escaped)
    => \A ev \in QueryEvents :
           \/ sent # MissAnswer(ev).sent
           \/ <<last_rank.found, last_rank.out>> # <<MissAnswer(ev).found, MissAnswer(ev).out>>

\* C16: whatever way the member-list fetch fails, the message hook lets no
\* exception out (the message goes on to be recorded) and no rank command is
\* aborted by one.
C16_FetchFailureNeverAborts == last_hook # "raised" /\ ~escaped

\* the nickname cache, the member dictionary and the remote fetch all give nothing
\* for the sender of ev, and the fetch raises nothing
AllTiersMiss(ev, group_id, user_id, c) ==
    /\ ~Truthy(_get_from_nickname_cache(user_id, c))
    /\ ~Truthy(_get_from_dict_cache(group_id, user_id, c).name)
    /\ _fetch_and_cache_from_api(ev, group_id, user_id, c).raised = None
    /\ ~Truthy(_fetch_and_cache_from_api(ev, group_id, user_id, c).name)

\* the group whose member list names the sender of ev (auto_message_listener)
NicknameGroup(ev) ==
    IF Truthy(ev.group_id) THEN ev.group_id ELSE _resolve_stats_group_id(ev)

\* this step is the message hook recording ev while every tier misses
RecordsUnnamed(ev) ==
    /\ AllTiersMiss(ev, NicknameGroup(ev), ev.sender_id, Caches)
    /\ auto_message_listener(ev).outcome = "recorded"
    /\ last_hook' = "recorded"
    /\ calls' # calls
    /\ store' = auto_message_listener(ev).store

\* the nickname a step leaves in the record of the sender of ev
RecordedName(ev) ==
    store'[_resolve_stats_group_id(ev)]
          [IndexOfUser(store'[_resolve_stats_group_id(ev)], ev.sender_id)].nickname

NamedEvents == { ev \in Events : Truthy(NicknameGroup(ev)) /\ Truthy(ev.sender_id) }

\* what the lookup of the sender of ev gives in the current caches
LookupOf(ev) ==
    _get_user_nickname_unified(ev, NicknameGroup(ev), ev.sender_id, Caches)

NicknameHit(ev) == Truthy(_get_from_nickname_cache(ev.sender_id, Caches))

DictHit(ev) ==
    Truthy(_get_from_dict_cache(NicknameGroup(ev), ev.sender_id, Caches).name)

\* C17: the tiers are consulted in the order nickname cache, member dictionary,
\* remote API. A nickname-cache hit is answered from that cache alone, with the
\* value it holds and no cache changed; a member-dictionary hit is answered
\* without the remote API (the member list cache and the dictionary stay as they
\* were); the remote API is asked only when both caches miss.
C17_TiersInOrder ==
    \A ev \in NamedEvents :
        /\ NicknameHit(ev) =>
               /\ LookupOf(ev).tiers = <<"nickname_cache">>
               /\ LookupOf(ev).name = user_nickname_cache[ev.sender_id]
               /\ LookupOf(ev).c = Caches
        /\ (~NicknameHit(ev) /\ DictHit(ev)) =>
               /\ LookupOf(ev).tiers = <<"nickname_cache", "dict_cache">>
               /\ LookupOf(ev).c.mc = group_members_cache
               /\ LookupOf(ev).c.dc = group_members_dict_cache
               /\ LookupOf(ev).raised = None
        /\ (~NicknameHit(ev) /\ ~DictHit(ev)) =>
               LookupOf(ev).tiers = <<"nickname_cache", "dict_cache", "api">>

\* after a recorded message the nickname cache and the member list cache ran out
\* while the member dictionary still names the sender: the next lookup of an event
\* whose remote API would answer stops at the dictionary
C17_Witness ==
    /\ last_hook = "recorded"
    /\ \E ev \in NamedEvents :
           /\ ev.api = "ok"
           /\ ~NicknameHit(ev)
           /\ DictHit(ev)
           /\ group_members_cache = EmptyDict
    /\ \E ev \in NamedEvents : ev.api = "ok" /\ NicknameHit(ev)

----------------------------------------------------------------------------
(* Cache lifetimes: the TTLCache timer, the nickname lookup under it *)

USER_NICKNAME_CACHE_TTL == 300
GROUP_MEMBERS_CACHE_TTL == 300

\* timer advances of one behaviour
MaxAdvances == 4

\* the timer is looked at every half TTL
TimerStep == USER_NICKNAME_CACHE_TTL \div 2

\* lookups of three users of G1, the third unknown to the remote member list
TimedEvents ==
    { [BaseEvent EXCEPT !.sender_id = u, !.api = a] :
          u \in UserIds, a \in {"ok", "ConnectionError"} }

\* the tier whose entry gave the name of the lookup r
ServedBy(user_id, r) ==
    IF r.tiers = <<"nickname_cache">> THEN "nickname_cache"
    ELSE IF r.tiers = <<"nickname_cache", "dict_cache">> THEN "dict_cache"
    ELSE IF r.raised = None /\ r.name # DefaultName(user_id) THEN "api"
    ELSE None

\* the age of the entry that gave the name of the lookup r
ServedAge(group_id, user_id, r) ==
    IF ServedBy(user_id, r) = "nickname_cache" THEN k_now - k_stamps.nc[user_id]
    ELSE IF ServedBy(user_id, r) = "dict_cache" THEN k_now - k_stamps.dc[group_id]
    ELSE 0

\* the store times after the lookup r: every entry the lookup wrote is stored now
StampsAfter(ev, group_id, user_id, r) ==
    LET fetched == "api" \in SeqToSet(r.tiers) /\ ev.api = "ok"
        named == ServedBy(user_id, r) \in {"dict_cache", "api"}
    IN  [nc |-> IF named THEN Put(k_stamps.nc, user_id, k_now) ELSE k_stamps.nc,
         mc |-> IF fetched THEN Put(k_stamps.mc, group_id, k_now) ELSE k_stamps.mc,
         dc |-> IF fetched THEN Put(k_stamps.dc, group_id, k_now) ELSE k_stamps.dc]

\* one _get_user_nickname_unified call at the current time
TimedLookup ==
    \E ev \in TimedEvents :
        \E r \in {_get_user_nickname_unified(ev, G1, ev.sender_id, Caches)} :
            /\ user_nickname_cache' = r.c.nc
            /\ group_members_dict_cache' = r.c.dc
            /\ group_members_cache' = r.c.mc
            /\ k_stamps' = StampsAfter(ev, G1, ev.sender_id, r)
            /\ k_served' = [tier |-> ServedBy(ev.sender_id, r),
                            age |-> ServedAge(G1, ev.sender_id, r)]
            /\ UNCHANGED <<k_now, task, last_cmd, f_disk, f_save, f_loaded, x_call>>
            /\ UNCHANGED <<h_history, h_start, h_end, h_fast, h_slow, w_type,
                           w_period, w_week>>
            /\ UNCHANGED <<today, store, plugin_config, group_unified_msg_origins,
                           sent, escaped, last_rank, last_hook, calls>>

\* the entries of a TTLCache that are still alive at time now
Alive(cache, stamps, ttl, now) ==
    [k \in {x \in DOMAIN cache : now < stamps[x] + ttl} |-> cache[k]]

\* time passes: the two TTLCache objects drop what ran out; the member
\* dictionary is a plain dict and keeps everything
AdvanceTimer ==
    /\ k_now < MaxAdvances * TimerStep
    /\ k_now' = k_now + TimerStep
    /\ user_nickname_cache' =
           Alive(user_nickname_cache, k_stamps.nc, USER_NICKNAME_CACHE_TTL, k_now')
    /\ group_members_cache' =
           Alive(group_members_cache, k_stamps.mc, GROUP_MEMBERS_CACHE_TTL, k_now')
    /\ k_stamps' =
           [k_stamps EXCEPT
                !.nc = Alive(@, @, USER_NICKNAME_CACHE_TTL, k_now'),
                !.mc = Alive(@, @, GROUP_MEMBERS_CACHE_TTL, k_now')]
    /\ UNCHANGED <<group_members_dict_cache, k_served, task, last_cmd,
      f_disk, f_save, f_loaded, x_call>>
    /\ UNCHANGED <<h_history, h_start, h_end, h_fast, h_slow, w_type, w_period, w_week>>
    /\ UNCHANGED <<today, store, plugin_config, group_unified_msg_origins,
                   sent, escaped, last_rank, last_hook, calls>>

NextTimed == TimedLookup \/ AdvanceTimer

\* nickname lookups while the timer of the caches runs
SpecTimed == Init /\ [][NextTimed]_vars

\* C19: a name served from a cache comes from an entry younger than the TTL, and
\* no cache holds an entry that is as old as the TTL.
C19_ServedWithinTtl ==
    /\ k_served.tier \in {"nickname_cache", "dict_cache"}
           => k_served.age < USER_NICKNAME_CACHE_TTL
    /\ \A k \in DOMAIN user_nickname_cache :
           k_now - k_stamps.nc[k] < USER_NICKNAME_CACHE_TTL
    /\ \A g \in DOMAIN group_members_cache :
           k_now - k_stamps.mc[g] < GROUP_MEMBERS_CACHE_TTL

----------------------------------------------------------------------------
(* Commands as tasks: a command runs from one await to the next in one step, and *)
(* message events run between its steps. get_group_data hands out the list      *)
(* and the records the store itself holds: a nickname written through them is   *)
(* written in the store, and a record the hook updates is the record the        *)
(* command holds.                                                                *)

\* {str(member.get("user_id", "")): display name} over the members with both
MemberNicknameMap(members_info) ==
    LET named == {i \in DOMAIN members_info :
                     /\ PyStr(members_info[i].user_id) # ""
                     /\ Truthy(_get_display_name_from_member(members_info[i]))}
        keys == {PyStr(members_info[i].user_id) : i \in named}
    IN  [u \in keys |->
            _get_display_name_from_member(
                members_info[CHOOSE i \in named :
                    /\ PyStr(members_info[i].user_id) = u
                    /\ \A j \in named : PyStr(members_info[j].user_id) = u => j <= i])]

\* a comparison that takes every nickname for changed
NicknameAlwaysStale(old_nickname, new_nickname) == TRUE

\* old_nickname != new_nickname
NicknameStale(old_nickname, new_nickname) == old_nickname # new_nickname

\* the users the refresh command renames
StaleUsers(group_data, map) ==
    {i \in DOMAIN group_data :
        /\ group_data[i].user_id \in DOMAIN map
        /\ NicknameStale(group_data[i].nickname, map[group_data[i].user_id])}

RenamedByMap(group_data, map) ==
    [i \in DOMAIN group_data |->
        IF i \in StaleUsers(group_data, map)
        THEN [group_data[i] EXCEPT !.nickname = map[group_data[i].user_id]]
        ELSE group_data[i]]

\* the ids of a list of users, in order
IdsOf(group_data) == [i \in DOMAIN group_data |-> group_data[i].user_id]

\* the records of the users ids, as the store holds them now
Pick(group_data, ids) ==
    [k \in DOMAIN ids |-> group_data[IndexOfUser(group_data, ids[k])]]

\* the stored list after records of it were changed through the list view
Reconcile(group_data, view) ==
    [i \in DOMAIN group_data |->
        IF IndexOfUser(view, group_data[i].user_id) # 0
        THEN view[IndexOfUser(view, group_data[i].user_id)]
        ELSE group_data[i]]

\* the list a suspended command holds: the list of the store, or the list the role
\* filter built from its records
ViewOf(st, t) ==
    IF t.alias THEN get_group_data(st, t.group_id)
    ELSE Pick(get_group_data(st, t.group_id), t.ids)

\* the state a command step reads and writes
Cur ==
    [store |-> store, c |-> Caches, sent |-> sent, escaped |-> escaped,
     last_rank |-> last_rank, task |-> task, last_cmd |-> last_cmd]

Apply(n) ==
    /\ store' = n.store
    /\ user_nickname_cache' = n.c.nc
    /\ group_members_dict_cache' = n.c.dc
    /\ group_members_cache' = n.c.mc
    /\ sent' = n.sent
    /\ escaped' = n.escaped
    /\ last_rank' = n.last_rank
    /\ task' = n.task
    /\ last_cmd' = n.last_cmd
    /\ UNCHANGED <<today, plugin_config, group_unified_msg_origins, last_hook, calls>>
    /\ UNCHANGED <<h_history, h_start, h_end, h_fast, h_slow, w_type, w_period, w_week>>
    /\ UNCHANGED <<k_now, k_stamps, k_served, f_disk, f_save, f_loaded, x_call>>

NewTask(kind, ev, q, group_id, roles_filter) ==
    [pc |-> "read", kind |-> kind, ev |-> ev, q |-> q, group_id |-> group_id,
     roles |-> roles_filter, alias |-> TRUE, ids |-> <<>>, updated_count |-> 0,
     saved |-> FALSE, api |-> None, snaps |-> <<>>, during |-> {}]

\* a rank keeps the group's records as they are now, when they changed since they
\* were last looked at
Snap(st, t) ==
    IF t.kind # "rank" THEN t
    ELSE IF t.snaps # <<>> /\ t.snaps[Len(t.snaps)] = get_group_data(st, t.group_id)
    THEN t
    ELSE [t EXCEPT !.snaps = Append(@, get_group_data(st, t.group_id))]

\* what the handler that ended in n did, with the count of commands kept
Ended(n, cmd) == [cmd EXCEPT !.started = n.last_cmd.started]

\* a command is started
Started(n) == [n EXCEPT !.last_cmd.started = @ + 1]

\* an exception no handler lists leaves the command: nothing is yielded
Escape(n) ==
    [n EXCEPT !.sent = <<>>, !.escaped = TRUE, !.task = NoTask,
              !.last_cmd = Ended(n, Command(n.task.kind, n.task.updated_count,
                                             n.task.saved, "Other", 0))]

\* the refresh command yields its one message and ends
EndRefresh(n) ==
    [n EXCEPT !.sent = <<"refreshed">>, !.escaped = FALSE, !.task = NoTask,
              !.last_cmd =
                  Ended(n, Command("refresh", n.task.updated_count, n.task.saved,
                                   n.task.api,
                                   IF n.task.during # {} THEN 0
                                   ELSE IF /\ n.last_cmd.name = "refresh"
                                           /\ n.last_cmd.api = n.task.api
                                           /\ n.last_cmd.streak >= 1
                                   THEN n.last_cmd.streak + 1 ELSE 1))]

\* _show_rank yields msgs and ends; values are the unsorted (user, value) pairs
EndRank(n, msgs, computed, values) ==
    [n EXCEPT !.sent = msgs, !.escaped = FALSE, !.task = NoTask,
              !.last_rank =
                  [rank_type |-> n.task.q.rank_type, roles |-> n.task.roles,
                   today |-> today, data |-> get_group_data(n.store, n.task.group_id),
                   blocked |-> plugin_config.blocked_users,
                   out |-> SortedByValueDesc(values), found |-> values # <<>>,
                   hint |-> n.task.q.hint,
                   text |-> IF msgs = <<"rank_text">>
                            THEN _generate_text_message(SortedByValueDesc(values),
                                                        plugin_config)
                            ELSE NoText,
                   computed |-> computed, snaps |-> n.task.snaps],
              !.last_cmd = Ended(n, Command("rank", n.task.updated_count,
                                            n.task.saved, n.task.api, 0))]

\* the end of _prepare_rank_data and _show_rank over the list the command holds
ComputeRank(n) ==
    LET values == _filter_data_by_rank_type(ViewOf(n.store, n.task),
                                            n.task.q.rank_type, today)
    IN  IF values = <<>>
        THEN EndRank(n, IF n.task.roles.given THEN <<"no_roles_data">> ELSE <<"no_data">>,
                     TRUE, values)
        ELSE [EndRank(n, RenderRank(n.task.ev, plugin_config).msgs, TRUE, values)
                 EXCEPT !.escaped = RenderRank(n.task.ev, plugin_config).raised # None]

\* _prepare_rank_data returned None before any value was computed
NoData(n) ==
    EndRank(n, IF n.task.roles.given THEN <<"no_roles_data">> ELSE <<"no_data">>,
            FALSE, <<>>)

\* a command ends, for the refresh command with its message, for a rank with its
\* computation
EndTask(n) == IF n.task.kind = "refresh" THEN EndRefresh(n) ELSE ComputeRank(n)

NoFilter == [given |-> FALSE, v |-> <<>>]

\* a refresh that drops the member caches of every group
RefreshDropsAll(ev) ==
    IF ~Truthy(ev.group_id)
    THEN [Cur EXCEPT !.sent = <<"no_group">>, !.escaped = FALSE,
                     !.last_cmd = Ended(Cur, Command("refresh", 0, FALSE, None, 0))]
    ELSE [Cur EXCEPT !.c = [nc |-> EmptyDict, dc |-> EmptyDict, mc |-> EmptyDict],
                     !.sent = <<>>, !.escaped = FALSE,
                     !.task = NewTask("refresh", ev, PlainQuery("TOTAL"), ev.group_id,
                                      NoFilter)]

\* refresh_group_members_cache up to its first await: the caches of the group and
\* every cached nickname are dropped
refresh_start(ev) ==
    IF ~Truthy(ev.group_id)
    THEN [Cur EXCEPT !.sent = <<"no_group">>, !.escaped = FALSE,
                     !.last_cmd = Ended(Cur, Command("refresh", 0, FALSE, None, 0))]
    ELSE [Cur EXCEPT !.c = [nc |-> EmptyDict,
                            dc |-> Del(group_members_dict_cache, ev.group_id),
                            mc |-> Del(group_members_cache, ev.group_id)],
                     !.sent = <<>>, !.escaped = FALSE,
                     !.task = NewTask("refresh", ev, PlainQuery("TOTAL"), ev.group_id,
                                      NoFilter)]

\* _show_rank up to the first await of _prepare_rank_data
RankStarted(ev, q, roles_filter, target_group_id, e) ==
    IF e.early
    THEN EndRank([Cur EXCEPT !.task = NewTask("rank", ev, q, target_group_id,
                                              roles_filter)],
                 e.msgs, FALSE, <<>>)
    ELSE IF ~Truthy(ev.sender_id)
    THEN NoData([Cur EXCEPT !.task = NewTask("rank", ev, q, target_group_id,
                                             roles_filter)])
    ELSE [Cur EXCEPT !.sent = <<>>, !.escaped = FALSE,
                     !.task = NewTask("rank", ev, q, target_group_id, roles_filter)]

RankRoles(q) ==
    [given |-> q.roles_given,
     v |-> IF q.roles_given THEN _parse_roles_param(q.roles_parts) ELSE <<>>]

rank_start(ev, q) ==
    RankStarted(ev, q, RankRoles(q), RankTarget(ev, q),
                RankEarly(ev, q, RankRoles(q), RankTarget(ev, q)))

\* get_group_data has answered all_data; n holds the list the command goes on with
ReadDone(n, all_data) ==
    IF all_data = <<>>
    THEN (IF n.task.kind = "refresh" THEN EndRefresh(n) ELSE NoData(n))
    ELSE IF ~n.task.alias /\ n.task.ids = <<>> THEN NoData(n)
    ELSE IF n.task.ev.platform = "kook" THEN EndTask(n)
    ELSE [n EXCEPT !.task.pc = "fetch"]

\* the command after "await get_group_data": a rank with roles builds its own list
task_read(t, all_data) ==
    ReadDone([Cur EXCEPT !.task =
                 IF t.kind = "rank" /\ t.roles.given /\ t.roles.v # <<>>
                 THEN [Snap(store, t) EXCEPT
                           !.alias = FALSE,
                           !.ids = IdsOf(RoleFilter(all_data, t.roles.v))]
                 ELSE Snap(store, t)],
             all_data)

\* after the nicknames were written: save when one changed, else go on
Renamed(n) ==
    IF n.task.updated_count > 0 THEN [n EXCEPT !.task.pc = "save"] ELSE EndTask(n)

\* the refresh command after its member fetch f
RefreshNamed(t, all_data, view, f, map) ==
    IF f.raised # None THEN Escape([Cur EXCEPT !.c = f.c])
    ELSE IF f.members = <<>> THEN EndRefresh([Cur EXCEPT !.task.api = t.ev.api])
    ELSE Renamed([Cur EXCEPT
                     !.c = f.c,
                     !.store = Put(store, t.group_id,
                                   Reconcile(all_data, RenamedByMap(view, map))),
                     !.task = Snap(Put(store, t.group_id,
                                       Reconcile(all_data, RenamedByMap(view, map))),
                                   [t EXCEPT !.api = t.ev.api,
                                             !.updated_count =
                                                 Cardinality(StaleUsers(view, map))])])

\* a rank after the member fetch of _refresh_nickname_cache_for_ranking gave r
RankNamed(t, all_data, r) ==
    IF r.raised # None THEN Escape([Cur EXCEPT !.c = r.c])
    ELSE Renamed([Cur EXCEPT
                     !.c = r.c,
                     !.store = Put(store, t.group_id, Reconcile(all_data, r.group_data)),
                     !.task = Snap(Put(store, t.group_id,
                                       Reconcile(all_data, r.group_data)),
                                   [t EXCEPT !.api = t.ev.api,
                                             !.updated_count = r.updated_count])])

\* the command after "await _fetch_group_members_from_api"
task_fetched(t, f) ==
    IF t.kind = "refresh"
    THEN RefreshNamed(t, get_group_data(store, t.group_id), ViewOf(store, t), f,
                      MemberNicknameMap(f.members))
    ELSE RankNamed(t, get_group_data(store, t.group_id),
                   RefreshFetched(t.group_id, ViewOf(store, t), f))

\* the command after "await save_group_data(group_id, group_data)"
task_saved(t, st) ==
    EndTask([Cur EXCEPT !.store = st,
                        !.task = Snap(st, [t EXCEPT !.saved = TRUE])])

\* manual_push: what it yields for a timer manager (None, without context, ready),
\* with or without target groups, and an outcome of TimerManager.manual_push
manual_push(timer_manager, has_groups, outcome) ==
    IF timer_manager = None THEN <<"timer_missing">>
    ELSE IF timer_manager = "no_context" THEN <<"timer_no_context">>
    ELSE IF ~has_groups THEN <<"no_target_groups">>
    ELSE IF outcome = "ok" THEN <<"pushing", "push_ok">>
    ELSE IF outcome = "failed" THEN <<"pushing", "push_failed">>
    ELSE <<"pushing", "request_failed">>

\* clear_group_data: the group is removed; FALSE when it was not known
clear_group_data(st, group_id) ==
    [store |-> Del(st, group_id), success |-> group_id \in DOMAIN st]

\* a clear command that reports success whatever clear_group_data returned
ClearReportsSuccess(ev) ==
    IF ~Truthy(ev.group_id) THEN [store |-> store, sent |-> <<"no_group">>]
    ELSE [store |-> clear_group_data(store, ev.group_id).store, sent |-> <<"cleared">>]

\* clear_message_ranking
clear_message_ranking(ev) ==
    IF ~Truthy(ev.group_id) THEN [store |-> store, sent |-> <<"no_group">>]
    ELSE [store |-> clear_group_data(store, ev.group_id).store,
          sent |-> IF clear_group_data(store, ev.group_id).success
                   THEN <<"cleared">> ELSE <<"clear_failed">>]

\* RANK_COUNT_MIN of the class, MAX_RANK_COUNT of utils/constants.py
RANK_COUNT_MIN == 1
MAX_RANK_COUNT == 100

\* the names self.<name> resolves among the constants set_rank_count reads: the
\* class body assigns RANK_COUNT_MIN; MAX_RANK_COUNT is a name of the module only
PluginAttributes == {"RANK_COUNT_MIN"}

SetResult(config, msgs) == [config |-> config, sent |-> msgs]

\* set_rank_count for the words after the command, args = message_str.split()[1:];
\* a token [t |-> "int", v |-> n] is a word int() turns into n, any other token
\* makes int() raise ValueError. Reading self.MAX_RANK_COUNT raises
\* AttributeError, which the handler of the command turns into the failure notice.
\* data_manager.get_config / save_config keep the configuration the plugin reads.
set_rank_count(ev, args, config) ==
    IF ~Truthy(ev.group_id) THEN SetResult(config, <<"no_group">>)
    ELSE IF args = <<>> THEN SetResult(config, <<"need_count">>)
    ELSE IF args[1].t # "int" THEN SetResult(config, <<"count_not_number">>)
    ELSE IF args[1].v < RANK_COUNT_MIN
    THEN (IF "MAX_RANK_COUNT" \in PluginAttributes
          THEN SetResult(config, <<"count_out_of_range">>)
          ELSE SetResult(config, <<"set_failed">>))
    ELSE IF "MAX_RANK_COUNT" \notin PluginAttributes
    THEN SetResult(config, <<"set_failed">>)
    ELSE IF args[1].v > MAX_RANK_COUNT THEN SetResult(config, <<"count_out_of_range">>)
    ELSE SetResult([config EXCEPT !.rand = args[1].v], <<"count_set">>)

\* commands started in one behaviour
MaxCommands == 2

\* the commands of the task machine are sent in G1 over qq, with a member fetch
\* that answers or fails, and over kook
TaskEvents ==
    { QueryEvent("qq", "ok", "ok"), QueryEvent("qq", "ConnectionError", "ok"),
      [QueryEvent("kook", "ok", "ok") EXCEPT !.guild_id = G1] }

TaskQueries ==
    { PlainQuery("TOTAL"), PlainQuery("DAILY"),
      KookQuery("TOTAL", <<IntTok(3), IntTok(2)>>),
      [PlainQuery("TOTAL") EXCEPT !.target = ShortGroup] }

\* the messages of the task machine: user 1 over qq, user 2 over kook with a role
\* the filter asks for or with another one
TaskMessages ==
    { [BaseEvent EXCEPT !.api = "ConnectionError"] }
    \cup { [BaseEvent EXCEPT !.platform = "kook", !.origin = "kook:10001",
                             !.guild_id = G1, !.sender_id = "2", !.roles = r] :
               r \in {{1, 2}, {4}} }

TaskConfigs ==
    { DefaultConfig,
      [DefaultConfig EXCEPT !.blocked_groups = <<[t |-> "int", v |-> 10001]>>] }

\* user 1 of G1 spoke once today
FirstUser ==
    [user_id |-> "1", nickname |-> "N1", message_count |-> 1,
     history |-> <<Bucket(StartDay, 1)>>, roles |-> {1, 2}]

InitTasks ==
    /\ today = StartDay
    /\ store = Put(EmptyDict, G1, <<FirstUser>>)
    /\ plugin_config \in TaskConfigs
    /\ user_nickname_cache = EmptyDict
    /\ group_members_cache = EmptyDict
    /\ group_members_dict_cache = EmptyDict
    /\ group_unified_msg_origins = EmptyDict
    /\ sent = <<>>
    /\ escaped = FALSE
    /\ last_rank = NoRank
    /\ last_hook = NoHook
    /\ calls = Put(EmptyDict, CallKey(G1, "1"), 1)
    /\ HarnessIdle

\* a refresh command arrives
StartRefresh ==
    /\ task.pc = "idle"
    /\ last_cmd.started < MaxCommands
    /\ \E ev \in TaskEvents : \E n \in {Started(refresh_start(ev))} : Apply(n)

\* a rank command arrives
StartRank ==
    /\ task.pc = "idle"
    /\ last_cmd.started < MaxCommands
    /\ \E ev \in TaskEvents, q \in TaskQueries :
           \E n \in {Started(rank_start(ev, q))} : Apply(n)

\* the store answers get_group_data
TaskRead ==
    /\ task.pc = "read"
    /\ \E n \in {task_read(task, get_group_data(store, task.group_id))} : Apply(n)

\* the remote API answers the member fetch
TaskFetched ==
    /\ task.pc = "fetch"
    /\ \E n \in {task_fetched(task,
                              _fetch_group_members_from_api(task.ev, task.group_id,
                                                            Caches))} : Apply(n)

\* the store has saved the list the command holds
TaskSaved ==
    /\ task.pc = "save"
    /\ \E n \in {task_saved(task, save_group_data(store, task.group_id,
                                                  ViewOf(store, task)))} : Apply(n)

\* a message event is handled between two steps of a command, or while none runs
TaskHookOf(events) ==
    /\ HookStep(events, MaxCalls + 1)
    /\ task' = IF task.pc = "idle" THEN task
               ELSE [Snap(store', task) EXCEPT
                        !.during = @ \cup {k \in DOMAIN calls' :
                                               k \notin DOMAIN calls \/ calls'[k] # calls[k]}]
    /\ last_cmd' = Ended(Cur, Command("hook", 0, FALSE, None, 0))
    /\ UNCHANGED <<h_history, h_start, h_end, h_fast, h_slow, w_type, w_period, w_week>>
    /\ UNCHANGED <<k_now, k_stamps, k_served, f_disk, f_save, f_loaded, x_call>>

TaskHook == TaskHookOf(TaskMessages)

\* a manual push command, handled by manual_push
ManualPush ==
    /\ task.pc = "idle"
    /\ last_cmd.started < MaxCommands
    /\ \E timer_manager \in {None, "no_context", "ready"}, has_groups \in BOOLEAN,
          outcome \in {"ok", "failed", "RuntimeError"} :
           Apply([Cur EXCEPT !.sent = manual_push(timer_manager, has_groups, outcome),
                             !.escaped = FALSE,
                             !.last_cmd =
                                 Started([last_cmd |->
                                     Ended(Cur, Command("push", 0, FALSE, None, 0))]
                                 ).last_cmd])

\* a clear command, handled by clear_message_ranking
ClearRanking ==
    /\ task.pc = "idle"
    /\ last_cmd.started < MaxCommands
    /\ \E ev \in TaskEvents : \E r \in {clear_message_ranking(ev)} :
           /\ store' = r.store
           /\ sent' = r.sent
           /\ escaped' = FALSE
           /\ calls' = [k \in {x \in DOMAIN calls : x[1] \in DOMAIN r.store} |-> calls[k]]
           /\ last_cmd' =
                  Started([last_cmd |->
                      Ended(Cur, Command("clear", 0, FALSE, None, 0))]).last_cmd
           /\ UNCHANGED <<today, plugin_config, user_nickname_cache, group_members_cache,
                          group_members_dict_cache, group_unified_msg_origins,
                          last_rank, last_hook, task>>
           /\ UNCHANGED <<h_history, h_start, h_end, h_fast, h_slow, w_type, w_period,
                          w_week>>
           /\ UNCHANGED <<k_now, k_stamps, k_served, f_disk, f_save, f_loaded, x_call>>

NextTasks ==
    \/ StartRefresh
    \/ StartRank
    \/ TaskRead
    \/ TaskFetched
    \/ TaskSaved
    \/ TaskHook
    \/ ManualPush
    \/ ClearRanking

\* commands that run from await to await, with message events between their steps
SpecTasks == InitTasks /\ [][NextTasks]_vars

NextRefresh ==
    \/ StartRefresh
    \/ TaskRead
    \/ TaskFetched
    \/ TaskSaved
    \/ TaskHook

\* refresh commands with message events between their steps
SpecRefresh == InitTasks /\ [][NextRefresh]_vars

----------------------------------------------------------------------------
(* Properties of the task machine *)

\* the record of call key k = <<group, user>> in st counts n messages
Counted(st, k, n) ==
    /\ k[1] \in DOMAIN st
    /\ IndexOfUser(st[k[1]], k[2]) # 0
    /\ st[k[1]][IndexOfUser(st[k[1]], k[2])].message_count = n
    /\ SumSeq(BucketCounts(st[k[1]][IndexOfUser(st[k[1]], k[2])].history)) = n

\* C11: when a refresh command or a rank with its nickname refresh ends, every
\* message that was recorded between two of its steps is still counted: the group
\* data holds the user with the message_count and the buckets of all the calls.
C11_InterleavedMessageKept ==
    [][(task.pc # "idle" /\ task'.pc = "idle")
          => \A k \in task.during : Counted(store', k, calls'[k])]_vars

\* the rank a list of records gives for the query of the last rank command
RankOfSnapshot(group_data) ==
    SeqToSet(_filter_data_by_rank_type(
                 IF last_rank.roles.given /\ last_rank.roles.v # <<>>
                 THEN RoleFilter(group_data, last_rank.roles.v) ELSE group_data,
                 last_rank.rank_type, last_rank.today))

\* C12: the users and values a rank command answers with are the rank of the
\* group's records as they were at one instant between its read of the group and
\* its end.
C12_RankIsSnapshot ==
    (/\ task.pc = "idle"
     /\ last_cmd.name = "rank"
     /\ last_rank.computed)
    => \E i \in DOMAIN last_rank.snaps :
           SeqToSet(last_rank.out) = RankOfSnapshot(last_rank.snaps[i])

\* C14: every command that ran to its end yielded exactly one message and let no
\* exception out.
C14_OneMessagePerCommand ==
    (task.pc = "idle" /\ last_cmd.name \in {"rank", "refresh", "push", "clear"})
    => Len(sent) = 1 /\ ~escaped

\* C20: a refresh command that follows a refresh command of the same group, with
\* the same member list fetched and no message recorded since the first began,
\* changes no nickname and saves nothing.
C20_SecondRefreshChangesNothing ==
    (/\ task.pc = "idle"
     /\ last_cmd.name = "refresh"
     /\ last_cmd.streak >= 2
     /\ last_cmd.api = "ok")
    => last_cmd.updated_count = 0 /\ ~last_cmd.saved

\* the second of two refresh commands ended, the first of which renamed user 1
C20_Witness ==
    /\ task.pc = "idle"
    /\ last_cmd.name = "refresh"
    /\ last_cmd.streak = 2
    /\ last_cmd.api = "ok"
    /\ sent = <<"refreshed">>
    /\ \E u \in StoredRecords : u.user_id = "1" /\ u.nickname = "Ca"

----------------------------------------------------------------------------
(* Frame of the nickname refresh *)

\* the record of user_id in group_data, where IndexOfUser found it
RecordOf(group_data, user_id) == group_data[IndexOfUser(group_data, user_id)]

\* C21: across a step that refreshes nicknames (a rank command, whose only write
\* to the store is the save of the refreshed list), every user stored before the
\* step is stored after it with the same message_count and the same history.
C21_RefreshKeepsCounts ==
    [][\A g \in DOMAIN store :
          /\ g \in DOMAIN store'
          /\ \A i \in DOMAIN store[g] :
                 /\ IndexOfUser(store'[g], store[g][i].user_id) # 0
                 /\ RecordOf(store'[g], store[g][i].user_id).message_count
                        = store[g][i].message_count
                 /\ RecordOf(store'[g], store[g][i].user_id).history
                        = store[g][i].history]_vars

----------------------------------------------------------------------------
(* Rank queries in image mode *)

\* rank commands whose member fetch succeeds, one per outcome of the generator
ImageEvents == { QueryEvent("qq", "ok", i) : i \in ImageOutcomes }

ImageQueries == { PlainQuery("TOTAL"), PlainQuery("DAILY") }

NextImage == ShowRank(ImageEvents, ImageQueries)

\* rank queries over preloaded groups, with every outcome of the image generator
SpecImage == InitRank /\ [][NextImage]_vars

\* C22: in image mode a rank query that found data to show ends with a rank
\* message, the image or the text rendering, whatever the image generator did;
\* no exception leaves the command.
C22_ImageFailureGivesText ==
    (plugin_config.if_send_pic /\ last_rank.found)
    => /\ ~escaped
       /\ sent \in {<<"rank_image">>, <<"rank_text">>}

----------------------------------------------------------------------------
(* The clear command *)

NextClear == ClearRanking \/ TaskHook

\* clear commands and message events, in any order
SpecClear == InitTasks /\ [][NextClear]_vars

\* a step in which a clear command ran
ClearStep == last_cmd'.name = "clear" /\ last_cmd'.started = last_cmd.started + 1

\* C23: a clear command sent in G1 ends without an exception and with one message:
\* when the store knows G1 the success notice, and afterwards G1 has no user
\* records; when the store does not know G1 the failure notice, and the store is
\* as it was.
C23_ClearKnownAndUnknown ==
    [][ClearStep
       => /\ ~escaped'
          /\ IF G1 \in DOMAIN store
             THEN sent' = <<"cleared">> /\ get_group_data(store', G1) = <<>>
             ELSE sent' = <<"clear_failed">> /\ store' = store]_vars

\* a clear command was answered with the failure notice: G1 had been cleared before
\* and no message had been recorded since
C23_Witness ==
    /\ last_cmd.name = "clear"
    /\ last_cmd.started = 2
    /\ sent = <<"clear_failed">>
    /\ G1 \notin DOMAIN store

----------------------------------------------------------------------------
(* The display count: the command that sets it and the text that uses it *)

\* the words after the set-count command
CountArgs ==
    {<<>>, <<JunkTok>>} \cup { <<IntTok(n)>> : n \in {0, 1, 2, 100, 101} }

\* display counts below, at and above the number of stored users
DisplayConfigs == { [DefaultConfig EXCEPT !.rand = n] : n \in {1, 2, 20} }

DisplayEvents == { QueryEvent("qq", "ConnectionError", "ok") }

DisplayQueries == { PlainQuery("TOTAL"), PlainQuery("DAILY") }

InitDisplay ==
    /\ today = RankDay
    /\ \E l \in RankStores : store = Put(EmptyDict, G1, l)
    /\ plugin_config \in DisplayConfigs
    /\ user_nickname_cache = EmptyDict
    /\ group_members_cache = EmptyDict
    /\ group_members_dict_cache = EmptyDict
    /\ group_unified_msg_origins = EmptyDict
    /\ sent = <<>>
    /\ escaped = FALSE
    /\ last_rank = NoRank
    /\ last_hook = NoHook
    /\ calls = EmptyDict
    /\ HarnessIdle

\* a set-count command, handled by set_rank_count
SetRankCount ==
    /\ last_cmd.started < MaxCommands
    /\ \E ev \in DisplayEvents, args \in CountArgs :
         \E r \in {set_rank_count(ev, args, plugin_config)} :
           /\ plugin_config' = r.config
           /\ sent' = r.sent
           /\ escaped' = FALSE
           /\ last_cmd' = [Command("set_count", 0, FALSE, None, 0) EXCEPT
                              !.started = last_cmd.started + 1, !.arg = args]
           /\ UNCHANGED <<today, store, user_nickname_cache, group_members_cache,
                          group_members_dict_cache, group_unified_msg_origins,
                          last_rank, last_hook, calls, task>>
           /\ UNCHANGED <<h_history, h_start, h_end, h_fast, h_slow, w_type, w_period,
                          w_week>>
           /\ UNCHANGED <<k_now, k_stamps, k_served, f_disk, f_save, f_loaded, x_call>>

NextDisplay == ShowRank(DisplayEvents, DisplayQueries) \/ SetRankCount

\* rank queries in text mode and set-count commands over preloaded groups
SpecDisplay == InitDisplay /\ [][NextDisplay]_vars

\* a step in which a set-count command ran
SetStep == last_cmd'.name = "set_count" /\ last_cmd'.started = last_cmd.started + 1

\* the integer a set-count command was given lies in [1, 100]
CountInRange(args) ==
    /\ args # <<>>
    /\ args[1].t = "int"
    /\ args[1].v >= 1
    /\ args[1].v <= 100

\* C24: a set-count command given an integer n in [1, 100] makes rand n and sends
\* the success message; given anything else it leaves rand as it was and sends an
\* error message; rand is within [1, 100] after every command.
C24_CountSetWithinRange ==
    [][SetStep
       => /\ IF CountInRange(last_cmd'.arg)
             THEN /\ plugin_config'.rand = last_cmd'.arg[1].v
                  /\ sent' = <<"count_set">>
             ELSE /\ plugin_config'.rand = plugin_config.rand
                  /\ sent' \in {<<"need_count">>, <<"count_not_number">>,
                                <<"count_out_of_range">>, <<"set_failed">>}
          /\ plugin_config'.rand >= 1
          /\ plugin_config'.rand <= 100]_vars

\* the number of entries the text shows: min(rand, length of the list)
Shown == IF plugin_config.rand < Len(last_rank.out) THEN plugin_config.rand
         ELSE Len(last_rank.out)

\* C25: when a rank was answered in text, the list the engine returned holds every
\* user the rank type gives a value (it is not cut to rand entries), the text has
\* one row for each of the first min(rand, length) entries of that list, in order,
\* and the total it reports and the percentage of every row are taken over the
\* sum of the values of the whole list.
C25_TextOverFullList ==
    (sent = <<"rank_text">> /\ last_rank.found)
    => /\ Len(last_rank.out)
              = Len(_filter_data_by_rank_type(last_rank.data, last_rank.rank_type,
                                              last_rank.today))
       /\ Len(last_rank.text.rows) = Shown
       /\ last_rank.text.total = TotalMessages(last_rank.out)
       /\ \A i \in 1..Shown :
              /\ last_rank.text.rows[i].pos = i
              /\ last_rank.text.rows[i].user = last_rank.out[i].user
              /\ last_rank.text.rows[i].value = last_rank.out[i].value
              /\ last_rank.text.rows[i].percentage
                     = Percentage(last_rank.out[i].value, TotalMessages(last_rank.out))

\* a text that shows fewer entries than the list holds, of a list whose hidden
\* entries carry messages
C25_Witness ==
    /\ sent = <<"rank_text">>
    /\ last_rank.found
    /\ Len(last_rank.text.rows) < Len(last_rank.out)
    /\ last_rank.text.total
           > TotalMessages(TopUsers(last_rank.out, plugin_config.rand))

----------------------------------------------------------------------------
(* Records older than history tracking *)

\* a stored record with messages counted and no history, of a user not blocked
Legacy(u) ==
    /\ u.history = <<>>
    /\ u.message_count > 0
    /\ u.user_id \notin BlockedIds

\* C26: of the records the last rank query read, one with an empty history and a
\* message_count above zero, of a user not blocked, is listed by the TOTAL rank
\* with its message_count as value (under a role filter: when it carries a role of
\* the filter), and is listed by no rank of another type.
C26_LegacyInTotalOnly ==
    \A i \in DOMAIN last_rank.data :
        Legacy(last_rank.data[i]) =>
            IF last_rank.rank_type = "TOTAL"
            THEN (~last_rank.roles.given \/ last_rank.data[i].roles \cap RoleSet # {})
                 => \E j \in DOMAIN last_rank.out :
                        /\ last_rank.out[j].user = last_rank.data[i].user_id
                        /\ last_rank.out[j].value = last_rank.data[i].message_count
            ELSE last_rank.data[i].user_id \notin RankedUsers

\* a TOTAL rank that lists a record with no history
C26_Witness ==
    /\ last_rank.rank_type = "TOTAL"
    /\ \E i \in DOMAIN last_rank.data :
           /\ Legacy(last_rank.data[i])
           /\ last_rank.data[i].user_id \in RankedUsers

----------------------------------------------------------------------------
(* The data file of a group: load_json_file and save_json_file *)

\* json.dumps(data): the text as a sequence of pieces, an opening brace, one piece
\* per user and a closing brace
JsonPiece(t, user) == [t |-> t, v |-> user]

NoUser == UserData("", "")

json_dumps(data) ==
    <<JsonPiece("{", NoUser)>>
    \o [i \in DOMAIN data |-> JsonPiece("user", data[i])]
    \o <<JsonPiece("}", NoUser)>>

\* json.loads(content): the data of a complete text, JSONDecodeError for any other
json_loads(content) ==
    IF /\ Len(content) >= 2
       /\ content[1].t = "{"
       /\ content[Len(content)].t = "}"
       /\ \A i \in 2..(Len(content) - 1) : content[i].t = "user"
    THEN [data |-> [i \in 1..(Len(content) - 2) |-> content[i + 1].v], raised |-> None]
    ELSE [data |-> <<>>, raised |-> "JSONDecodeError"]

\* load_json_file: the whole file is read and parsed
load_json_file(disk) == json_loads(disk)

\* aiofiles.open(file_path, 'w'): the file is created or truncated
OpenForWrite(disk) == <<>>

\* save_json_file up to its first await: the file is open for writing
save_open(disk, data) ==
    [disk |-> OpenForWrite(disk),
     save |-> [pc |-> "writing", text |-> json_dumps(data), prev |-> disk]]

\* f.write: the next piece of the text reaches the file; after the last one the
\* file is closed and save_json_file returns
save_write(disk, save) ==
    [disk |-> Append(disk, save.text[Len(disk) + 1]),
     save |-> IF Len(disk) + 1 < Len(save.text) THEN save ELSE NoSave]

\* the data a group's file may hold: one stored user, in each activity
FileDocs == { <<u>> : u \in {x \in StoredUsers : x.user_id = "1"} } \cup {<<>>}

\* the file holds the complete text of some data; nothing else has happened
InitFile ==
    /\ today = StartDay
    /\ store = EmptyDict
    /\ plugin_config = DefaultConfig
    /\ user_nickname_cache = EmptyDict
    /\ group_members_cache = EmptyDict
    /\ group_members_dict_cache = EmptyDict
    /\ group_unified_msg_origins = EmptyDict
    /\ sent = <<>>
    /\ escaped = FALSE
    /\ last_rank = NoRank
    /\ last_hook = NoHook
    /\ calls = EmptyDict
    /\ ScanIdle
    /\ CommandIdle
    /\ \E data \in FileDocs : f_disk = json_dumps(data)
    /\ f_save = NoSave
    /\ f_loaded = NotLoaded

file_others ==
    <<today, store, plugin_config, user_nickname_cache, group_members_cache,
      group_members_dict_cache, group_unified_msg_origins, sent, escaped, last_rank,
      last_hook, calls, h_history, h_start, h_end, h_fast, h_slow, w_type, w_period,
      w_week, k_now, k_stamps, k_served, task, last_cmd, x_call>>

\* save_json_file is called with some data and runs to its first await
SaveOpen ==
    /\ f_save.pc = "idle"
    /\ \E data \in FileDocs : \E r \in {save_open(f_disk, data)} :
           f_disk' = r.disk /\ f_save' = r.save
    /\ UNCHANGED f_loaded
    /\ UNCHANGED file_others

\* the write of save_json_file goes on by one piece
SaveWrite ==
    /\ f_save.pc = "writing"
    /\ \E r \in {save_write(f_disk, f_save)} : f_disk' = r.disk /\ f_save' = r.save
    /\ UNCHANGED f_loaded
    /\ UNCHANGED file_others

\* the save is interrupted between two of its steps (the task is cancelled, the
\* process ends): what reached the file stays
SaveInterrupted ==
    /\ f_save.pc = "writing"
    /\ f_save' = NoSave
    /\ UNCHANGED <<f_disk, f_loaded>>
    /\ UNCHANGED file_others

\* load_json_file runs, between two steps of a save or while none runs
LoadFile ==
    /\ f_loaded' = load_json_file(f_disk)
    /\ UNCHANGED <<f_disk, f_save>>
    /\ UNCHANGED file_others

NextFile == SaveOpen \/ SaveWrite \/ SaveInterrupted \/ LoadFile

\* saves and loads of one data file, interleaved at the awaits of the save
SpecFile == InitFile /\ [][NextFile]_vars

\* C27: the file always holds the complete text of some data, during a save the
\* text of the data before the save or of the data being saved, and no load ever
\* fails to parse what it read.
C27_SaveIsAtomic ==
    /\ json_loads(f_disk).raised = None
    /\ f_save.pc = "writing" => f_disk \in {f_save.prev, f_save.text}
    /\ f_loaded.raised = None

----------------------------------------------------------------------------
(* Command texts at the message hook *)

\* the message events whose text starts with '%' or '/'
CommandEvents ==
    { ev \in Events : SubSeq(ev.message_str, 1, 1) \in {"%", "/"} }

\* what the hook leaves behind for ev is what it found
LeavesAll(ev) ==
    /\ auto_message_listener(ev).store = store
    /\ auto_message_listener(ev).c = Caches
    /\ auto_message_listener(ev).origins = group_unified_msg_origins
    /\ auto_message_listener(ev).outcome = "command"
    /\ auto_message_listener(ev).raised = None

----------------------------------------------------------------------------
(* The roles parameter of a rank query *)

\* the last query named kook and its roles parameter held at least one number
RolesServable == last_rank.hint = "kook" /\ last_rank.roles.v # <<>>

\* C29: a rank query with a roles parameter goes on to the group's data only when
\* it names the kook platform and the parsed role list is not empty; any other
\* query with a roles parameter is answered with one error message, gives no rank
\* and reads no group data, and the step that answers it leaves the store alone.
C29_RolesNeedKook ==
    /\ [](last_rank.roles.given
          => IF RolesServable
             THEN sent \notin {<<"roles_need_kook">>, <<"roles_format">>}
             ELSE /\ sent \in {<<"roles_need_kook">>, <<"roles_format">>}
                  /\ ~last_rank.found
                  /\ last_rank.out = <<>>
                  /\ last_rank.data = <<>>)
    /\ [][(last_rank'.roles.given /\ ~RolesServable') => store' = store]_vars

\* a query with a roles parameter and no platform named was turned away, in a
\* group whose users carry the role it asked for
C29_Witness ==
    /\ last_rank.roles.given
    /\ last_rank.hint # "kook"
    /\ last_rank.roles.v # <<>>
    /\ sent = <<"roles_need_kook">>
    /\ \E g \in DOMAIN store : \E i \in DOMAIN store[g] :
           store[g][i].roles \cap RoleSet # {} /\ store[g][i].message_count > 0

----------------------------------------------------------------------------
(* The caches of other groups across a refresh command *)

\* a second group
G2 == "10002"

\* messages of users 1 and 2 in G1 and in G2, with a member fetch that answers
CacheMessages ==
    { [BaseEvent EXCEPT !.group_id = g, !.origin = "qq:" \o g, !.sender_id = u] :
          g \in {G1, G2}, u \in {"1", "2"} }

NextCaches ==
    \/ StartRefresh
    \/ TaskRead
    \/ TaskFetched
    \/ TaskSaved
    \/ TaskHookOf(CacheMessages)

\* refresh commands in G1 while messages arrive in G1 and in G2
SpecCaches == InitTasks /\ [][NextCaches]_vars

\* a step of a refresh command (its start or the return of one of its awaits), and
\* the group the command was sent in
RefreshStep ==
    /\ task'.pc # task.pc
    /\ IF task.pc = "idle" THEN task'.kind = "refresh" ELSE task.kind = "refresh"

RefreshGroup == IF task.pc = "idle" THEN task'.group_id ELSE task.group_id

\* cache holds for group g after the step what it held before
SameEntry(cache_after, cache, g) ==
    /\ (g \in DOMAIN cache_after) <=> (g \in DOMAIN cache)
    /\ g \in DOMAIN cache => cache_after[g] = cache[g]

----------------------------------------------------------------------------
(* The member dictionary as the source of a name *)

\* the member dictionary holds an entry for the sender of ev in the group of ev
\* while the nickname cache holds none
DictEntryOnly(ev) ==
    /\ ~NicknameHit(ev)
    /\ NicknameGroup(ev) \in DOMAIN group_members_dict_cache
    /\ ev.sender_id \in DOMAIN group_members_dict_cache[NicknameGroup(ev)]

\* the member the dictionary holds for the sender of ev
DictMember(ev) == group_members_dict_cache[NicknameGroup(ev)][ev.sender_id]

\* the lookup of the sender of ev again, in the caches the lookup of ev left
LookupAgain(ev) ==
    _get_user_nickname_unified(ev, NicknameGroup(ev), ev.sender_id, LookupOf(ev).c)

\* C31: a lookup answered by the member dictionary returns the member's card when
\* the card is non-empty and the member's nickname otherwise, and leaves that
\* name in the nickname cache under the user; the next lookup of the user in the
\* caches it left stops at the nickname cache and returns the same name.
C31_DictHitFillsNicknameCache ==
    \A ev \in NamedEvents :
        (DictEntryOnly(ev) /\ (DictMember(ev).card # "" \/ DictMember(ev).nickname # ""))
        => /\ LookupOf(ev).tiers = <<"nickname_cache", "dict_cache">>
           /\ LookupOf(ev).name = IF DictMember(ev).card # "" THEN DictMember(ev).card
                                  ELSE DictMember(ev).nickname
           /\ ev.sender_id \in DOMAIN LookupOf(ev).c.nc
           /\ LookupOf(ev).c.nc[ev.sender_id] = LookupOf(ev).name
           /\ LookupAgain(ev).tiers = <<"nickname_cache">>
           /\ LookupAgain(ev).name = LookupOf(ev).name
           /\ LookupAgain(ev).c = LookupOf(ev).c

\* a message was recorded and the nickname cache ran out: the dictionary is the
\* first tier to name a sender with a card and a sender with a nickname alone
C31_Witness ==
    /\ last_hook = "recorded"
    /\ \E ev \in NamedEvents :
           DictEntryOnly(ev) /\ DictMember(ev).card # ""
    /\ \E ev \in NamedEvents :
           /\ DictEntryOnly(ev)
           /\ DictMember(ev).card = "" /\ DictMember(ev).nickname # ""

----------------------------------------------------------------------------
(* Messages of blocked users, of blocked groups and of the bot *)

\* user 2 spoke in G1 before the block list named the user
SecondUser ==
    [user_id |-> "2", nickname |-> "N2", message_count |-> 2,
     history |-> <<Bucket(StartDay, 2)>>, roles |-> {}]

\* block lists as the configuration file gives them: ids as numbers or as strings
BlockConfigs ==
    { [DefaultConfig EXCEPT !.blocked_users = <<[t |-> "int", v |-> 2]>>,
                            !.blocked_groups = <<[t |-> "str", v |-> G2]>>],
      [DefaultConfig EXCEPT !.blocked_users = <<[t |-> "str", v |-> "1"]>>,
                            !.blocked_groups = <<[t |-> "int", v |-> 10002]>>] }

\* messages of users 1 and 2 in G1 and in G2 over qq, the bot's own message over
\* qq, a bot's message over kook, and a kook message in the guild G2
BlockEvents ==
    { [BaseEvent EXCEPT !.group_id = g, !.origin = "qq:" \o g, !.sender_id = u,
                        !.api = a] :
          g \in {G1, G2}, u \in {"1", "2"}, a \in {"ok", "ConnectionError"} }
    \cup { [BaseEvent EXCEPT !.sender_id = "9"],
           [BaseEvent EXCEPT !.sender_id = "3", !.self_id = "3"],
           [BaseEvent EXCEPT !.platform = "kook", !.origin = "kook:10001",
                             !.guild_id = G1, !.bot_flag = TRUE],
           [BaseEvent EXCEPT !.platform = "kook", !.origin = "kook:10001",
                             !.guild_id = G1, !.sender_id = "3"],
           [BaseEvent EXCEPT !.platform = "kook", !.origin = "kook:10002",
                             !.guild_id = G2, !.sender_id = "3"] }

InitBlock ==
    /\ today = StartDay
    /\ store = Put(EmptyDict, G1, <<FirstUser, SecondUser>>)
    /\ plugin_config \in BlockConfigs
    /\ user_nickname_cache = EmptyDict
    /\ group_members_cache = EmptyDict
    /\ group_members_dict_cache = EmptyDict
    /\ group_unified_msg_origins = EmptyDict
    /\ sent = <<>>
    /\ escaped = FALSE
    /\ last_rank = NoRank
    /\ last_hook = NoHook
    /\ calls = EmptyDict
    /\ HarnessIdle

NextBlock == MessageHook(BlockEvents) \/ ExpireNickname

\* the message hook under block lists
SpecBlock == InitBlock /\ [][NextBlock]_vars

FromBlockedUser(ev) ==
    \E i \in DOMAIN plugin_config.blocked_users :
        PyStr(plugin_config.blocked_users[i]) = ev.sender_id

FromBlockedGroup(ev) ==
    \E i \in DOMAIN plugin_config.blocked_groups :
        PyStr(plugin_config.blocked_groups[i]) = _resolve_stats_group_id(ev)

\* the sender is the bot: the account the adapter runs as, or over kook an author
\* the raw message flags as a bot
FromBot(ev) ==
    IF ev.platform = "kook" THEN ev.bot_flag
    ELSE ev.self_id # "" /\ ev.sender_id = ev.self_id

\* the message_count and the history of every user record of a store
CountsOf(st) ==
    [g \in DOMAIN st |->
        [i \in DOMAIN st[g] |->
            <<st[g][i].user_id, st[g][i].message_count, st[g][i].history>>]]

\* C32: the hook, given a message of a blocked user, of a blocked group or of the
\* bot, returns with the message_count and the history of every user record as
\* they were, and for a blocked group or the bot also with the group-origin
\* mapping and the three caches as they were; a step in which the hook turned
\* such a message away changes none of these.
C32_BlockedNeverRecorded ==
    /\ [](\A ev \in BlockEvents :
            /\ (FromBlockedUser(ev) \/ FromBlockedGroup(ev) \/ FromBot(ev))
               => CountsOf(auto_message_listener(ev).store) = CountsOf(store)
            /\ (FromBlockedGroup(ev) \/ FromBot(ev))
               => /\ auto_message_listener(ev).origins = group_unified_msg_origins
                  /\ auto_message_listener(ev).c = Caches)
    /\ [][(last_hook' # last_hook
           /\ last_hook' \in {"blocked_user", "blocked_group", "bot"})
          => /\ CountsOf(store') = CountsOf(store)
             /\ calls' = calls
             /\ last_hook' # "blocked_user"
                => UNCHANGED <<group_unified_msg_origins, user_nickname_cache,
                               group_members_cache, group_members_dict_cache>>]_vars

\* a message of a blocked user was turned away after a message had been recorded;
\* the blocked user has a record from before, and the lookup of the name ran
C32_Witness ==
    /\ last_hook = "blocked_user"
    /\ TotalCalls > 0
    /\ \E ev \in BlockEvents :
           /\ FromBlockedUser(ev) /\ ~FromBlockedGroup(ev) /\ ~FromBot(ev)
           /\ IndexOfUser(get_group_data(store, G1), ev.sender_id) # 0
           /\ auto_message_listener(ev).c # Caches
    /\ \E ev \in BlockEvents : FromBlockedGroup(ev) /\ ~FromBot(ev)
    /\ \E ev \in BlockEvents : FromBot(ev) /\ ~FromBlockedGroup(ev)
                               /\ ~FromBlockedUser(ev)

----------------------------------------------------------------------------
(* The path the period counter takes *)

\* every adjacent pair of the history is in order by date
AdjacentPairsOrdered(history) ==
    \A i \in DOMAIN history :
        i < Len(history) => history[i].date <= history[i + 1].date

\* the entries of the history whose date lies in the window
InWindow(history, start_date, end_date) ==
    { i \in DOMAIN history : start_date <= history[i].date /\ history[i].date <= end_date }

----------------------------------------------------------------------------
(* Timer commands: the scheduled push settings of the configuration *)

Digits == {"0", "1", "2", "3", "4", "5", "6", "7", "8", "9"}

\* the character of s at position i
CharAt(s, i) == SubSeq(s, i, i)

\* the hour alternative ([01]?[0-9]|2[0-3]) matched against the whole of h
HourMatches(h) ==
    \/ Len(h) = 1 /\ CharAt(h, 1) \in Digits
    \/ /\ Len(h) = 2
       /\ \/ CharAt(h, 1) \in {"0", "1"} /\ CharAt(h, 2) \in Digits
          \/ CharAt(h, 1) = "2" /\ CharAt(h, 2) \in {"0", "1", "2", "3"}

\* a time check that asks for the colon alone
TimeHasColon(time_str) ==
    /\ Len(time_str) \in {4, 5}
    /\ CharAt(time_str, Len(time_str) - 2) = ":"

\* re.match(r'^([01]?[0-9]|2[0-3]):[0-5][0-9]$', time_str) for a word of the
\* command text (a word holds no newline)
_validate_time_format(time_str) ==
    /\ Len(time_str) \in {4, 5}
    /\ HourMatches(SubSeq(time_str, 1, Len(time_str) - 3))
    /\ CharAt(time_str, Len(time_str) - 2) = ":"
    /\ CharAt(time_str, Len(time_str) - 1) \in {"0", "1", "2", "3", "4", "5"}
    /\ CharAt(time_str, Len(time_str)) \in Digits

\* group_id.isdigit() and len(group_id) >= 5
IsGroupWord(group_id) ==
    /\ Len(group_id) >= 5
    /\ \A i \in 1..Len(group_id) : CharAt(group_id, i) \in Digits

\* what the timer manager does with update_config / stop_timer: there is none, it
\* has no context, it returns True or False, it raises an exception the handlers
\* list or one they do not list
TimerOutcomes == {"none", "no_context", "ok", "fail", "RuntimeError", "Other"}

\* the outcomes of data_manager.save_config
SaveOutcomes == {"ok", "OSError"}

TimerResult(config, msgs, raised) == [config |-> config, sent |-> msgs, raised |-> raised]

\* the exception handlers of a timer command around a call of the timer manager
\* whose result the command does not read
TimerCalled(config, tm, msgs) ==
    IF tm = "RuntimeError" THEN TimerResult(config, <<"request_failed">>, None)
    ELSE IF tm = "Other" THEN TimerResult(config, <<>>, "Other")
    ELSE TimerResult(config, msgs, None)

\* if self.timer_manager and config.timer_enabled: update_config(...)
TimerUpdated(config, tm, msgs) ==
    IF tm # "none" /\ config.timer_enabled THEN TimerCalled(config, tm, msgs)
    ELSE TimerResult(config, msgs, None)

\* set_timer_time, args = message_str.split()[1:]
set_timer_time(ev, args, config, tm) ==
    IF args = <<>> THEN TimerResult(config, <<"need_time">>, None)
    ELSE IF ~_validate_time_format(args[1]) THEN TimerResult(config, <<"bad_time">>, None)
    ELSE IF ~Truthy(ev.group_id) THEN TimerResult(config, <<"no_group">>, None)
    ELSE LET set == [config EXCEPT
                        !.timer_push_time = args[1],
                        !.timer_target_groups =
                            IF ev.group_id \in SeqToSet(@) THEN @
                            ELSE Append(@, ev.group_id),
                        !.timer_enabled = TRUE]
         IN  IF tm = "none" THEN TimerResult(set, <<"time_saved">>, None)
             ELSE IF tm = "fail" THEN TimerResult(set, <<"time_set_partly">>, None)
             ELSE TimerCalled(set, tm, <<"time_set">>)

\* set_timer_groups
set_timer_groups(args, config, tm) ==
    IF args = <<>> THEN TimerResult(config, <<"need_groups">>, None)
    ELSE IF \E i \in DOMAIN args : ~IsGroupWord(args[i])
    THEN TimerResult(config, <<"bad_group">>, None)
    ELSE TimerUpdated([config EXCEPT !.timer_target_groups = args], tm, <<"groups_set">>)

\* [group for group in current_groups if group not in groups_to_remove]
RECURSIVE Remaining(_, _)
Remaining(current_groups, groups_to_remove) ==
    IF current_groups = <<>> THEN <<>>
    ELSE LET rest == Remaining(Tail(current_groups), groups_to_remove)
         IN  IF current_groups[1] \in SeqToSet(groups_to_remove) THEN rest
             ELSE <<current_groups[1]>> \o rest

\* remove_timer_groups
remove_timer_groups(args, config, tm, save) ==
    IF args = <<>>
    THEN TimerUpdated([config EXCEPT !.timer_target_groups = <<>>], tm,
                      <<"groups_cleared">>)
    ELSE IF \E i \in DOMAIN args : ~IsGroupWord(args[i])
    THEN TimerResult(config, <<"bad_group">>, None)
    ELSE LET left == [config EXCEPT
                         !.timer_target_groups = Remaining(@, args)]
         IN  IF save = "OSError" THEN TimerResult(left, <<"save_failed">>, None)
             ELSE TimerUpdated(left, tm, <<"groups_removed">>)

\* enable_timer
enable_timer(config, tm) ==
    IF config.timer_target_groups = <<>>
    THEN TimerResult(config, <<"need_groups">>, None)
    ELSE LET on == [config EXCEPT !.timer_enabled = TRUE]
         IN  IF tm = "none" THEN TimerResult(on, <<"manager_missing">>, None)
             ELSE IF tm = "no_context" THEN TimerResult(on, <<"manager_not_ready">>, None)
             ELSE IF tm = "fail" THEN TimerResult(on, <<"enable_failed">>, None)
             ELSE TimerCalled(on, tm, <<"enabled">>)

\* disable_timer
disable_timer(config, tm) ==
    LET off == [config EXCEPT !.timer_enabled = FALSE]
    IN  IF tm = "none" THEN TimerResult(off, <<"disabled">>, None)
        ELSE TimerCalled(off, tm, <<"disabled">>)

\* str.lower() over the words the commands are given
Lower(word) == IF word = "Daily" THEN "daily" ELSE word

\* valid_types of set_timer_type
TimerTypes == {"total", "daily", "week", "weekly", "month", "monthly"}

\* set_timer_type
set_timer_type(args, config, tm) ==
    IF args = <<>> THEN TimerResult(config, <<"need_type">>, None)
    ELSE IF Lower(args[1]) \notin TimerTypes THEN TimerResult(config, <<"bad_type">>, None)
    ELSE TimerUpdated([config EXCEPT !.timer_rank_type = Lower(args[1])], tm,
                      <<"type_set">>)

\* the words given to the set-time command
TimeWords ==
    {"16:12", "9:05", "23:59", "00:00", "24:00", "12:60", "1612", "16:1", "7:5",
     "ab:cd", "16:123", "x6:12"}

TimeArgs == {<<>>} \cup { <<w>> : w \in TimeWords }

\* the words given to the group commands
GroupArgs == {<<>>, <<G1>>, <<G2>>, <<G1, G2>>, <<"123">>, <<G1, "abc">>}

TypeArgs == {<<>>, <<"weekly">>, <<"Daily">>, <<"yearly">>}

\* timer commands are sent in G1, in G2 or where the event gives no group id
TimerEvents ==
    { [BaseEvent EXCEPT !.group_id = g] : g \in {G1, G2, ""} }

\* scheduled push off, with no target group or with G2 as target
TimerConfigs ==
    { DefaultConfig, [DefaultConfig EXCEPT !.timer_target_groups = <<G2>>] }

InitTimer ==
    /\ today = StartDay
    /\ store = EmptyDict
    /\ plugin_config \in TimerConfigs
    /\ user_nickname_cache = EmptyDict
    /\ group_members_cache = EmptyDict
    /\ group_members_dict_cache = EmptyDict
    /\ group_unified_msg_origins = EmptyDict
    /\ sent = <<>>
    /\ escaped = FALSE
    /\ last_rank = NoRank
    /\ last_hook = NoHook
    /\ calls = EmptyDict
    /\ HarnessIdle

\* a timer command ran and gave r: the configuration, the messages and the
\* record of the command
TimerCommand(name, arg, r) ==
    /\ last_cmd.started < MaxCommands
    /\ plugin_config' = r.config
    /\ sent' = r.sent
    /\ escaped' = (r.raised # None)
    /\ last_cmd' = [Command(name, 0, FALSE, None, 0) EXCEPT
                       !.started = last_cmd.started + 1, !.arg = arg]
    /\ UNCHANGED <<today, store, user_nickname_cache, group_members_cache,
                   group_members_dict_cache, group_unified_msg_origins,
                   last_rank, last_hook, calls, task>>
    /\ UNCHANGED <<h_history, h_start, h_end, h_fast, h_slow, w_type, w_period,
                   w_week>>
    /\ UNCHANGED <<k_now, k_stamps, k_served, f_disk, f_save, f_loaded, x_call>>

SetTimerTime ==
    \E ev \in TimerEvents, args \in TimeArgs, tm \in TimerOutcomes :
        TimerCommand("set_time", <<ev.group_id>> \o args,
                     set_timer_time(ev, args, plugin_config, tm))

SetTimerGroups ==
    \E args \in GroupArgs, tm \in TimerOutcomes :
        TimerCommand("set_groups", args, set_timer_groups(args, plugin_config, tm))

RemoveTimerGroups ==
    \E args \in GroupArgs, tm \in TimerOutcomes, save \in SaveOutcomes :
        TimerCommand("remove_groups", args,
                     remove_timer_groups(args, plugin_config, tm, save))

EnableTimer ==
    \E tm \in TimerOutcomes :
        TimerCommand("enable", <<>>, enable_timer(plugin_config, tm))

DisableTimer ==
    \E tm \in TimerOutcomes :
        TimerCommand("disable", <<>>, disable_timer(plugin_config, tm))

SetTimerType ==
    \E args \in TypeArgs, tm \in TimerOutcomes :
        TimerCommand("set_type", args, set_timer_type(args, plugin_config, tm))

NextTimer ==
    \/ SetTimerTime
    \/ SetTimerGroups
    \/ RemoveTimerGroups
    \/ EnableTimer
    \/ DisableTimer
    \/ SetTimerType

\* the timer commands in any order
SpecTimer == InitTimer /\ [][NextTimer]_vars

\* the texts H:MM and HH:MM of every hour 0 to 23 and every minute 00 to 59
TwoDigits(n) == IF n < 10 THEN "0" \o IntToStr(n) ELSE IntToStr(n)

ClockTexts ==
    { h \o ":" \o TwoDigits(m) :
          h \in { IntToStr(n) : n \in 0..23 } \cup { TwoDigits(n) : n \in 0..23 },
          m \in 0..59 }

\* a step in which a set-time command ran
SetTimeStep ==
    last_cmd'.name = "set_time" /\ last_cmd'.started = last_cmd.started + 1

\* C34: a set-time command given a clock text as its first word and sent in a
\* group makes that text the push time, leaves the target groups as they were
\* with the group added at the end if it was not among them, and turns the timer
\* on; a command with no word, with a first word that is no clock text, or sent
\* where there is no group id leaves push time, target groups and timer_enabled
\* as they were.
C34_SetTimeSetsOrLeaves ==
    [][SetTimeStep
       => IF /\ Len(last_cmd'.arg) >= 2
             /\ last_cmd'.arg[2] \in ClockTexts
             /\ last_cmd'.arg[1] # ""
          THEN /\ plugin_config'.timer_push_time = last_cmd'.arg[2]
               /\ plugin_config'.timer_target_groups =
                      IF \E i \in DOMAIN plugin_config.timer_target_groups :
                             plugin_config.timer_target_groups[i] = last_cmd'.arg[1]
                      THEN plugin_config.timer_target_groups
                      ELSE Append(plugin_config.timer_target_groups, last_cmd'.arg[1])
               /\ plugin_config'.timer_enabled
          ELSE /\ plugin_config'.timer_push_time = plugin_config.timer_push_time
               /\ plugin_config'.timer_target_groups = plugin_config.timer_target_groups
               /\ plugin_config'.timer_enabled = plugin_config.timer_enabled]_vars

\* a set-time command sent in G2 while G2 was a target already: the list still
\* holds G2 once, the push time is the one given with a one-digit hour, the timer
\* is on
C34_Witness ==
    /\ last_cmd.name = "set_time"
    /\ last_cmd.arg = <<G2, "9:05">>
    /\ plugin_config.timer_push_time = "9:05"
    /\ plugin_config.timer_target_groups = <<G2>>
    /\ plugin_config.timer_enabled

\* C35 as stated: whenever the timer is enabled, the list of target groups is not
\* empty.
C35_EnabledHasTargets ==
    plugin_config.timer_enabled => plugin_config.timer_target_groups # <<>>

----------------------------------------------------------------------------
(* Who is listed by a rank *)

\* the value the rank type of the last query gives a stored user: the running
\* total, the sum of today's bucket, or the number of history entries dated in
\* the window of the type
ValueOf(u) ==
    LET period == TimePeriod(last_rank.rank_type, last_rank.today)
    IN  IF last_rank.rank_type = "TOTAL" THEN u.message_count
        ELSE IF last_rank.rank_type = "DAILY"
        THEN BucketSum(u.history, period.start, period.end)
        ELSE Cardinality(InWindow(u.history, period.start, period.end))

\* the stored user is not blocked, has a role of the filter when the query gave
\* one, and has a value above zero
Qualifies(u) ==
    /\ u.user_id \notin BlockedIds
    /\ last_rank.roles.given => u.roles \cap RoleSet # {}
    /\ ValueOf(u) > 0

\* the positions of the rank list that name the user
ListedAt(user_id) == { k \in DOMAIN last_rank.out : last_rank.out[k].user = user_id }

\* C36: when a rank of any type, with or without a role filter, gives a list,
\* every stored user of the group who is not blocked, matches the filter and has
\* a value above zero is in the list exactly once, with that value; when it
\* reports that there is no data, no stored user of the group is such a user.
C36_EveryQualifyingUserListed ==
    /\ last_rank.found =>
           \A i \in DOMAIN last_rank.data :
               Qualifies(last_rank.data[i])
               => /\ Cardinality(ListedAt(last_rank.data[i].user_id)) = 1
                  /\ \A k \in ListedAt(last_rank.data[i].user_id) :
                         last_rank.out[k].value = ValueOf(last_rank.data[i])
    /\ (~last_rank.found /\ sent \in {<<"no_data">>, <<"no_roles_data">>})
       => \A i \in DOMAIN last_rank.data : ~Qualifies(last_rank.data[i])

\* a weekly rank under a role filter listed one of the two stored users:
\* the filter leaves the other out, though that user spoke
C36_Witness ==
    /\ last_rank.found
    /\ last_rank.rank_type = "WEEKLY"
    /\ last_rank.roles.given
    /\ Len(last_rank.out) = 1
    /\ Len(last_rank.data) = 2
    /\ \E i \in DOMAIN last_rank.data :
           /\ ~Qualifies(last_rank.data[i])
           /\ last_rank.data[i].roles \cap RoleSet = {}
           /\ last_rank.data[i].history # <<>>

----------------------------------------------------------------------------
(* Ranks on the first day of a window *)

\* a Monday that is also the first day of a month, a Monday inside a month, and
\* a first day of a month that is a Thursday
FirstDays == {MkDate(2024, 1, 1), MkDate(2024, 1, 8), MkDate(2024, 2, 1)}

\* users of a group on the day d: spoke twice on d; spoke once on d; spoke once
\* the day before and once on d; spoke the day before only
FirstDayUsers(d) ==
    { [user_id |-> u, nickname |-> "N" \o u, message_count |-> SumSeq(BucketCounts(h)),
       history |-> h, roles |-> RolesOf(u)] :
          u \in UserIds,
          h \in { <<Bucket(d, 2)>>, <<Bucket(d, 1)>>,
                  <<Bucket(d - 1, 1), Bucket(d, 1)>>, <<Bucket(d - 1, 1)>> } }

FirstDayStores(d) ==
    { <<a, b>> : a \in { u \in FirstDayUsers(d) : u.user_id = "1" },
                 b \in { u \in FirstDayUsers(d) : u.user_id = "2" } }

FirstDayEvents == { QueryEvent("qq", "ConnectionError", "ok") }

FirstDayQueries == { PlainQuery("DAILY"), PlainQuery("WEEKLY"), PlainQuery("MONTHLY") }

InitFirstDay ==
    /\ today \in FirstDays
    /\ \E l \in FirstDayStores(today) : store = Put(EmptyDict, G1, l)
    /\ plugin_config = DefaultConfig
    /\ user_nickname_cache = EmptyDict
    /\ group_members_cache = EmptyDict
    /\ group_members_dict_cache = EmptyDict
    /\ group_unified_msg_origins = EmptyDict
    /\ sent = <<>>
    /\ escaped = FALSE
    /\ last_rank = NoRank
    /\ last_hook = NoHook
    /\ calls = EmptyDict
    /\ HarnessIdle

NextFirstDay == ShowRank(FirstDayEvents, FirstDayQueries)

\* daily, weekly and monthly ranks asked on the first day of a week or a month
SpecFirstDay == InitFirstDay /\ [][NextFirstDay]_vars

\* the daily rank of the records the last query read, on the day it was asked
DailyRankOf(group_data, current_date) ==
    SortedByValueDesc(_filter_data_by_rank_type(group_data, "DAILY", current_date))

\* C37 as stated: a weekly rank asked on a Monday and a monthly rank asked on the
\* first day of a month list the same users with the same values in the same
\* order as the daily rank of that day.
C37_FirstDayRankIsDaily ==
    (\/ last_rank.rank_type = "WEEKLY" /\ Weekday(last_rank.today) = 0
     \/ last_rank.rank_type = "MONTHLY" /\ DayOf(last_rank.today) = 1)
    => last_rank.out = DailyRankOf(last_rank.data, last_rank.today)

----------------------------------------------------------------------------
(* Names across groups *)

\* messages of users 1 and 2: in G1 the member fetch answers, in G2 it fails
GroupEvents ==
    { [BaseEvent EXCEPT !.sender_id = u] : u \in {"1", "2"} }
    \cup { [BaseEvent EXCEPT !.group_id = G2, !.origin = "qq:10002", !.sender_id = u,
                             !.api = "ConnectionError"] : u \in {"1", "2"} }

NextGroups == MessageHook(GroupEvents) \/ ExpireNickname \/ Tick

\* the message hook over two groups of the same users
SpecGroups == Init /\ [][NextGroups]_vars

\* the names the member data of a group give a user: the member list of G1 is
\* the remote one, that of G2 was never obtained
MemberNames(group_id, user_id) ==
    IF group_id = G1
    THEN { IF RemoteMembers[i].card # "" THEN RemoteMembers[i].card
           ELSE RemoteMembers[i].nickname :
               i \in { j \in DOMAIN RemoteMembers :
                           PyStr(RemoteMembers[j].user_id) = user_id } }
    ELSE {}

\* the names the events of a user in a group carry, and the placeholder that
\* stands in for an empty one
EventNames(group_id, user_id) ==
    { IF ev.sender_name # "" THEN ev.sender_name ELSE DefaultName(user_id) :
          ev \in { e \in GroupEvents : e.group_id = group_id /\ e.sender_id = user_id } }

\* C38 as stated: the name recorded for a user in a group is a name the member
\* data of that group give the user, or the name carried by the user's message
\* in that group.
C38_NameFromOwnGroup ==
    \A g \in DOMAIN store :
        \A i \in DOMAIN store[g] :
            store[g][i].nickname
                \in MemberNames(g, store[g][i].user_id)
                    \cup EventNames(g, store[g][i].user_id)

----------------------------------------------------------------------------
(* safe_execute: the decorator that turns exceptions into a default value *)

\* the classes an exception of each class is an instance of: itself and its
\* bases, as the interpreter defines them
Bases(cls) ==
    CASE cls = "OSError" -> {"OSError", "Exception", "BaseException"}
      [] cls = "FileNotFoundError" ->
             {"FileNotFoundError", "OSError", "Exception", "BaseException"}
      [] cls = "PermissionError" ->
             {"PermissionError", "OSError", "Exception", "BaseException"}
      [] cls = "KeyError" -> {"KeyError", "LookupError", "Exception", "BaseException"}
      [] cls = "IndexError" -> {"IndexError", "LookupError", "Exception", "BaseException"}
      [] cls = "TypeError" -> {"TypeError", "Exception", "BaseException"}
      [] cls = "ValueError" -> {"ValueError", "Exception", "BaseException"}
      [] cls = "UnicodeDecodeError" ->
             {"UnicodeDecodeError", "ValueError", "Exception", "BaseException"}
      [] cls = "AttributeError" -> {"AttributeError", "Exception", "BaseException"}
      [] cls = "RuntimeError" -> {"RuntimeError", "Exception", "BaseException"}
      [] cls = "NotImplementedError" ->
             {"NotImplementedError", "RuntimeError", "Exception", "BaseException"}
      [] cls = "RecursionError" ->
             {"RecursionError", "RuntimeError", "Exception", "BaseException"}
      [] cls = "asyncio.TimeoutError" ->
             {"asyncio.TimeoutError", "Exception", "BaseException"}
      [] cls = "ZeroDivisionError" ->
             {"ZeroDivisionError", "ArithmeticError", "Exception", "BaseException"}
      [] cls = "MemoryError" -> {"MemoryError", "Exception", "BaseException"}
      [] cls = "StopIteration" -> {"StopIteration", "Exception", "BaseException"}
      [] cls = "asyncio.CancelledError" -> {"asyncio.CancelledError", "BaseException"}
      [] cls = "KeyboardInterrupt" -> {"KeyboardInterrupt", "BaseException"}
      [] cls = "SystemExit" -> {"SystemExit", "BaseException"}

ExceptionClasses ==
    {"OSError", "FileNotFoundError", "PermissionError", "KeyError", "IndexError",
     "TypeError", "ValueError", "UnicodeDecodeError", "AttributeError", "RuntimeError",
     "NotImplementedError", "RecursionError", "asyncio.TimeoutError",
     "ZeroDivisionError", "MemoryError", "StopIteration", "asyncio.CancelledError",
     "KeyboardInterrupt", "SystemExit"}

\* an except clause: the classes it names and the handler it calls
Clause(classes, handler) == [classes |-> classes, handler |-> handler]

\* the except clauses of sync_wrapper without the last one
SyncListedOnly ==
    << Clause({"IOError", "OSError"}, "handle_io_error"),
       Clause({"KeyError", "TypeError", "ValueError", "AttributeError"},
              "handle_data_error"),
       Clause({"RuntimeError", "NotImplementedError"}, "handle_runtime_error") >>

\* the except clauses of async_wrapper, in order
async_wrapper ==
    << Clause({"IOError", "OSError"}, "handle_io_error"),
       Clause({"KeyError", "TypeError", "ValueError", "AttributeError"},
              "handle_data_error"),
       Clause({"RuntimeError", "NotImplementedError"}, "handle_runtime_error"),
       Clause({"asyncio.TimeoutError"}, "handle_timeout_error"),
       Clause({"Exception"}, "log") >>

\* the except clauses of sync_wrapper, in order
sync_wrapper ==
    << Clause({"IOError", "OSError"}, "handle_io_error"),
       Clause({"KeyError", "TypeError", "ValueError", "AttributeError"},
              "handle_data_error"),
       Clause({"RuntimeError", "NotImplementedError"}, "handle_runtime_error"),
       Clause({"Exception"}, "log") >>

\* the first clause that names a class of the exception, 0 when none does
FirstClause(clauses, cls) ==
    IF \E i \in DOMAIN clauses : clauses[i].classes \cap Bases(cls) # {}
    THEN CHOOSE i \in DOMAIN clauses :
             /\ clauses[i].classes \cap Bases(cls) # {}
             /\ \A j \in DOMAIN clauses :
                    clauses[j].classes \cap Bases(cls) # {} => i <= j
    ELSE 0

\* every handler of ExceptionHandler, and the logging of the last clause, ends
\* with return default_return
HandlerReturn(handler, default_return) == default_return

\* a wrapper around one call of func: call = [raised, result]
Wrapped(clauses, call, default_return) ==
    IF call.raised = None
    THEN [returned |-> call.result, escaped |-> None, handler |-> None]
    ELSE IF FirstClause(clauses, call.raised) = 0
    THEN [returned |-> None, escaped |-> call.raised, handler |-> None]
    ELSE [returned |-> HandlerReturn(clauses[FirstClause(clauses, call.raised)].handler,
                                     default_return),
          escaped |-> None,
          handler |-> clauses[FirstClause(clauses, call.raised)].handler]

\* safe_execute(default_return)(func) called once; kind is "async" when
\* asyncio.iscoroutinefunction(func), "sync" otherwise
safe_execute(default_return, kind, call) ==
    Wrapped(IF kind = "async" THEN async_wrapper ELSE sync_wrapper, call, default_return)

\* what a call of func does: it returns a value or raises an exception
WrappedCalls ==
    { [raised |-> None, result |-> v] : v \in {"value", "fallback", None} }
    \cup { [raised |-> cls, result |-> None] : cls \in ExceptionClasses }

\* the values given as default_return
DefaultReturns == {None, "fallback", "empty_list"}

\* one call of a wrapped function
CallWrapped ==
    /\ \E kind \in {"sync", "async"}, call \in WrappedCalls, d \in DefaultReturns :
         \E r \in {safe_execute(d, kind, call)} :
           x_call' = [kind |-> kind, raised |-> call.raised, result |-> call.result,
                      default_return |-> d, returned |-> r.returned,
                      escaped |-> r.escaped]
    /\ UNCHANGED <<today, store, plugin_config, user_nickname_cache, group_members_cache,
                   group_members_dict_cache, group_unified_msg_origins, sent, escaped,
                   last_rank, last_hook, calls>>
    /\ UNCHANGED <<h_history, h_start, h_end, h_fast, h_slow, w_type, w_period, w_week>>
    /\ UNCHANGED <<k_now, k_stamps, k_served, task, last_cmd, f_disk, f_save, f_loaded>>

NextSafe == CallWrapped

\* calls of functions wrapped by safe_execute
SpecSafe == Init /\ [][NextSafe]_vars

\* C39: a call of a wrapped function, sync or async, that raises an exception of
\* any class derived from Exception lets no exception out and returns
\* default_return; a call that raises nothing returns what the function returned.
C39_SafeExecuteNeverRaises ==
    x_call.kind # "none" =>
        /\ (x_call.raised # None /\ "Exception" \in Bases(x_call.raised))
           => /\ x_call.escaped = None
              /\ x_call.returned = x_call.default_return
        /\ x_call.raised = None
           => /\ x_call.escaped = None
              /\ x_call.returned = x_call.result

\* a sync function raised an exception that only the last clause catches, and
\* the wrapper returned the default
C39_Witness ==
    /\ x_call.kind = "sync"
    /\ x_call.raised = "ZeroDivisionError"
    /\ x_call.default_return = "fallback"
    /\ x_call.returned = "fallback"
    /\ x_call.escaped = None

====
